---- MODULE Spec2Model ----
(***************************************************************************)
(* A model of the force-resolution and state-advancement core of           *)
(* MultibodyPlant (src/multibody/plant/multibody_plant.cc).                *)
(*                                                                         *)
(* Scalars are small integers; IEEE NaN is the distinguished value NaN,    *)
(* which every arithmetic operation propagates.  Spatial forces are        *)
(* one-dimensional analogues [tau, f] of (torque, force).                  *)
(***************************************************************************)
EXTENDS Integers, Sequences, FiniteSets, TLC

\* ------------------------------------------------------------------------
\* Bounds of the model.
\* ------------------------------------------------------------------------
num_bodies == 2
num_model_instances == 3
MaxActuators == 1
MaxSpatialForces == 2
MaxDepth == 2
MaxState == 2
MaxContacts == 1
MaxVersion == 1
MaxEvals == 3
MaxGain == 2
NumContexts == 2
MaxGeometries == 2
MaxJoints == 1
MaxAllowanceRoot == 2
MaxPenetration == 2
MaxSpeed == 2
VScale == 2

\* ------------------------------------------------------------------------
\* Scalars.
\* ------------------------------------------------------------------------
NaN == -1000

world_index == 0

\* The scene graph pointer when it points at nothing.
nullptr == "nullptr"

hasNaN(vec) ==
    \E i \in DOMAIN vec : vec[i] = NaN

Plus(a, b) ==
    IF a = NaN \/ b = NaN THEN NaN ELSE a + b

Times(a, b) ==
    IF a = NaN \/ b = NaN THEN NaN ELSE a * b

\* SpatialForce::Shift(offset): the force is unchanged, the torque becomes
\* tau - offset x f.
Shift(F, offset) ==
    [tau |-> Plus(F.tau, Times(-1, Times(offset, F.f))), f |-> F.f]

SpatialPlus(F, G) ==
    [tau |-> Plus(F.tau, G.tau), f |-> Plus(F.f, G.f)]

SpatialZero == [tau |-> 0, f |-> 0]

\* ------------------------------------------------------------------------
\* State.
\* ------------------------------------------------------------------------
VARIABLES
    is_discrete,      \* plant: time_step_ > 0
    actuators,        \* plant: actuators[k] = model instance of actuator k
    stack,            \* per context: the active CalcNonContactForces frames
    in_progress,      \* per context: the "evaluation in progress" cache value
    exc,              \* per context: the exception being unwound
    pending_warning,  \* plant: joint_limits_parameters_.pending_warning_message
    prior_loop        \* per context: the evaluation before this one ended in
                      \* the algebraic-loop error

forceVars ==
    <<is_discrete, actuators, stack, in_progress, exc, pending_warning,
      prior_loop>>

\* The discrete step.
VARIABLES
    time_step,        \* plant: time_step_
    manager,          \* plant: discrete_update_manager_ is installed
    x0,               \* context: the discrete state [q, v]
    updates,          \* the caller's DiscreteValues buffer [q, v]
    step              \* the last CalcDiscreteStep: [status, vdot]

stepVars == <<time_step, manager, x0, updates, step>>

\* The contact forces.
VARIABLES
    contact_model,              \* plant: contact_model_
    num_collision_geometries,   \* plant: registered collision geometries
    point_pairs,                \* context: point pair contacts of the results
    surfaces,                   \* context: hydroelastic contact surfaces
    contact_cache,              \* cache: spatial contact forces, continuous
    last                        \* the last accumulation: [caller, prior, result]

contactVars == <<contact_model, num_collision_geometries, point_pairs,
                 surfaces, contact_cache, last>>

\* The cache.
VARIABLES
    ticket_version,   \* context: version of every dependency ticket
    cache,            \* context: per slot, the stored versions and value
    last_eval,        \* the last Eval: [slot, ran, value]
    evals,            \* the number of Evals so far
    computed          \* history: the <<slot, versions>> computed so far

cacheVars == <<ticket_version, cache, last_eval, evals, computed>>

\* The size check of a force accumulator.
VARIABLES
    forces_arg, \* the accumulator a caller passes [body, gen]
    call  \* the last call on it [entry, status, before]

sizeVars == <<forces_arg, call>>

\* The joint limit penalty of one joint.
VARIABLES
    limit_in, \* the joint: [lower_limit, upper_limit, stiffness, damping, q, v]
    limit_out  \* the penalty force computed for it: [done, force]

limitVars == <<limit_in, limit_out>>

\* The plant between construction and use.
VARIABLES
    finalized, \* Finalize has run
    scene_graph_, \* the scene graph pointer, nullptr or a scene graph
    source_id_, \* whether the plant is registered as a geometry source
    num_collision_geometries_, \* collision geometries registered so far
    joints_, \* joints with limits added so far
    penetration_allowance_, \* the penetration allowance
    penalty_method_contact_parameters_, \* geometry_stiffness, dissipation and time_scale
    joint_limits_parameters_, \* what SetUpJointLimitsParameters stored
    plant_last  \* the last operation, whether it threw, and what it dereferenced

plantVars == <<finalized, scene_graph_, source_id_, num_collision_geometries_, joints_, penetration_allowance_, penalty_method_contact_parameters_, joint_limits_parameters_, plant_last>>

\* The geometry query input port of a context.
VARIABLES
    query_connected, \* whether the port has a value
    query_last  \* the last evaluation, the port as it found it, its error and whether it read the port

queryVars == <<query_connected, query_last>>

\* One point pair of a continuous plant.
VARIABLES
    pair_in, \* the pair [A, B, x, vn, vt, k, d, mu]
    pair_out  \* what it produced [done, records, F]

pairVars == <<pair_in, pair_out>>

\* One hydroelastic contact surface.
VARIABLES
    surface_in, \* the surface and the inspector [id_M, id_N, friction, body]
    surface_out  \* what the loop body read for it [done, geometryM_friction, geometryN_friction, bodyA_index, bodyB_index]

surfaceVars == <<surface_in, surface_out>>

\* The hydroelastic computations of a plant instantiated on a scalar type.
VARIABLES
    scalar_type, \* the scalar type T of the plant
    hydro_output, \* the output object the caller passes
    hydro_last  \* the last computation, its error and the surfaces it integrated

scalarVars == <<scalar_type, hydro_output, hydro_last>>

\* The geometries registered on the bodies of a plant under construction.
VARIABLES
    geometry_id_to_body_index_, \* the map from geometry identifier to body index
    visual_geometries_, \* per body, the list of its visual geometries
    collision_geometries_, \* per body, the list of its collision geometries
    collision_count, \* num_collision_geometries_ as the registrations count it
    registered_on, \* history, the body each identifier was registered on
    find_last  \* the last FindBodyByGeometryId [id, ok, body]

registryVars == <<geometry_id_to_body_index_, visual_geometries_, collision_geometries_, collision_count, registered_on, find_last>>

\* The Stribeck friction coefficient at one slip speed.
VARIABLES
    stribeck_in, \* the friction and the speed [mu_s, mu_d, n], v = n / VScale
    stribeck_out  \* the coefficient computed [done, mu], mu a fraction

stribeckVars == <<stribeck_in, stribeck_out>>

\* Joint reaction forces (CalcReactionForces).
VARIABLES
    reaction_in, \* per joint: frames of the joint and of its mobilizer, mobilizer reaction, poses
    reaction_out  \* the output array F_CJc_Jc_array and the progress of the loop

reactionVars == <<reaction_in, reaction_out>>

\* Joint limit penalty parameters (JointLimitsPenaltyParametersEstimator).
VARIABLES
    penalty_in, \* the joint: its kind, the two bodies and the frequency of the oscillator
    penalty_out  \* the pairs estimated for the two bodies and the pair returned

penaltyVars == <<penalty_in, penalty_out>>

\* Separating plane conditions of a collision geometry (CollisionGeometry::OnPlaneSide).
VARIABLES
    collision_geometry, \* the shape and its number of vertices
    rationals, \* the list of rationals of the caller
    unit_length_vector, \* whether the optional vector of the caller has a value
    plane_last  \* the last operation on the list, the list before it and the calls since the list was last empty

planeVars == <<collision_geometry, rationals, unit_length_vector, plane_last>>

\* The two evaluations that read the force input ports (CalcNonContactForces, AddInForcesContinuous).
VARIABLES
    guard_stack, \* the active evaluations, outermost first: [fn, pc]
    evaluation_in_progress, \* the cache value non_contact_forces_evaluation_in_progress
    port_reads, \* history: [fn, port, marked] for every input port read so far
    guard_error  \* the error the last evaluation ended in

guardVars == <<guard_stack, evaluation_in_progress, port_reads, guard_error>>

\* The cached contact results of a discrete plant and what they are computed from.
VARIABLES
    source_version, \* context: the version of the discrete state, the parameters and the value of each input port
    results_cache, \* context: per entry, the versions of its prerequisites stored with it and its value
    returned  \* the last evaluation: the entry, the value returned and the value of the sources at that time

discreteVars == <<source_version, results_cache, returned>>

\* The actuation of each actuator from the per-instance ports.
VARIABLES
    actuation_read, \* what the actuation ports hold: [all, inst], each [has, val]
    actuation_out  \* the assembled vector and the value applied to each actuator

actuationVars == <<actuation_read, actuation_out>>

\* The plant before and after Finalize, and the operations each side allows.
VARIABLES
    is_finalized, \* is_finalized()
    configuration, \* what the configuration operations set up, the manager and the default positions
    lifecycle_last  \* the last operation called and how it ended

lifecycleVars == <<is_finalized, configuration, lifecycle_last>>

vars == <<forceVars, stepVars, contactVars, cacheVars, sizeVars, limitVars, plantVars, queryVars, pairVars, surfaceVars, scalarVars, registryVars, stribeckVars, reactionVars, penaltyVars, planeVars, guardVars, discreteVars, actuationVars, lifecycleVars>>

otherThanForces == <<stepVars, contactVars, cacheVars, sizeVars, limitVars, plantVars, queryVars, pairVars, surfaceVars, scalarVars, registryVars, stribeckVars, reactionVars, penaltyVars, planeVars, guardVars, discreteVars, actuationVars, lifecycleVars>>
otherThanStep == <<forceVars, contactVars, cacheVars, sizeVars, limitVars, plantVars, queryVars, pairVars, surfaceVars, scalarVars, registryVars, stribeckVars, reactionVars, penaltyVars, planeVars, guardVars, discreteVars, actuationVars, lifecycleVars>>
otherThanContact == <<forceVars, stepVars, cacheVars, sizeVars, limitVars, plantVars, queryVars, pairVars, surfaceVars, scalarVars, registryVars, stribeckVars, reactionVars, penaltyVars, planeVars, guardVars, discreteVars, actuationVars, lifecycleVars>>
otherThanCache == <<forceVars, stepVars, contactVars, sizeVars, limitVars, plantVars, queryVars, pairVars, surfaceVars, scalarVars, registryVars, stribeckVars, reactionVars, penaltyVars, planeVars, guardVars, discreteVars, actuationVars, lifecycleVars>>
otherThanSize == <<forceVars, stepVars, contactVars, cacheVars, limitVars, plantVars, queryVars, pairVars, surfaceVars, scalarVars, registryVars, stribeckVars, reactionVars, penaltyVars, planeVars, guardVars, discreteVars, actuationVars, lifecycleVars>>
otherThanLimit == <<forceVars, stepVars, contactVars, cacheVars, sizeVars, plantVars, queryVars, pairVars, surfaceVars, scalarVars, registryVars, stribeckVars, reactionVars, penaltyVars, planeVars, guardVars, discreteVars, actuationVars, lifecycleVars>>
otherThanPlant == <<forceVars, stepVars, contactVars, cacheVars, sizeVars, limitVars, queryVars, pairVars, surfaceVars, scalarVars, registryVars, stribeckVars, reactionVars, penaltyVars, planeVars, guardVars, discreteVars, actuationVars, lifecycleVars>>
otherThanQuery == <<forceVars, stepVars, contactVars, cacheVars, sizeVars, limitVars, plantVars, pairVars, surfaceVars, scalarVars, registryVars, stribeckVars, reactionVars, penaltyVars, planeVars, guardVars, discreteVars, actuationVars, lifecycleVars>>
otherThanPair == <<forceVars, stepVars, contactVars, cacheVars, sizeVars, limitVars, plantVars, queryVars, surfaceVars, scalarVars, registryVars, stribeckVars, reactionVars, penaltyVars, planeVars, guardVars, discreteVars, actuationVars, lifecycleVars>>
otherThanSurface == <<forceVars, stepVars, contactVars, cacheVars, sizeVars, limitVars, plantVars, queryVars, pairVars, scalarVars, registryVars, stribeckVars, reactionVars, penaltyVars, planeVars, guardVars, discreteVars, actuationVars, lifecycleVars>>
otherThanScalar == <<forceVars, stepVars, contactVars, cacheVars, sizeVars, limitVars, plantVars, queryVars, pairVars, surfaceVars, registryVars, stribeckVars, reactionVars, penaltyVars, planeVars, guardVars, discreteVars, actuationVars, lifecycleVars>>
otherThanRegistry == <<forceVars, stepVars, contactVars, cacheVars, sizeVars, limitVars, plantVars, queryVars, pairVars, surfaceVars, scalarVars, stribeckVars, reactionVars, penaltyVars, planeVars, guardVars, discreteVars, actuationVars, lifecycleVars>>
otherThanStribeck == <<forceVars, stepVars, contactVars, cacheVars, sizeVars, limitVars, plantVars, queryVars, pairVars, surfaceVars, scalarVars, registryVars, reactionVars, penaltyVars, planeVars, guardVars, discreteVars, actuationVars, lifecycleVars>>
otherThanReaction == <<forceVars, stepVars, contactVars, cacheVars, sizeVars, limitVars, plantVars, queryVars, pairVars, surfaceVars, scalarVars, registryVars, stribeckVars, penaltyVars, planeVars, guardVars, discreteVars, actuationVars, lifecycleVars>>
otherThanPenalty == <<forceVars, stepVars, contactVars, cacheVars, sizeVars, limitVars, plantVars, queryVars, pairVars, surfaceVars, scalarVars, registryVars, stribeckVars, reactionVars, planeVars, guardVars, discreteVars, actuationVars, lifecycleVars>>
otherThanPlane == <<forceVars, stepVars, contactVars, cacheVars, sizeVars, limitVars, plantVars, queryVars, pairVars, surfaceVars, scalarVars, registryVars, stribeckVars, reactionVars, penaltyVars, guardVars, discreteVars, actuationVars, lifecycleVars>>
otherThanGuard == <<forceVars, stepVars, contactVars, cacheVars, sizeVars, limitVars, plantVars, queryVars, pairVars, surfaceVars, scalarVars, registryVars, stribeckVars, reactionVars, penaltyVars, planeVars, discreteVars, actuationVars, lifecycleVars>>
otherThanDiscrete == <<forceVars, stepVars, contactVars, cacheVars, sizeVars, limitVars, plantVars, queryVars, pairVars, surfaceVars, scalarVars, registryVars, stribeckVars, reactionVars, penaltyVars, planeVars, guardVars, actuationVars, lifecycleVars>>
otherThanActuation == <<forceVars, stepVars, contactVars, cacheVars, sizeVars, limitVars, plantVars, queryVars, pairVars, surfaceVars, scalarVars, registryVars, stribeckVars, reactionVars, penaltyVars, planeVars, guardVars, discreteVars, lifecycleVars>>
otherThanLifecycle == <<forceVars, stepVars, contactVars, cacheVars, sizeVars, limitVars, plantVars, queryVars, pairVars, surfaceVars, scalarVars, registryVars, stribeckVars, reactionVars, penaltyVars, planeVars, guardVars, discreteVars, actuationVars>>

\* The plant before and after Finalize, and the operations each side allows, when not under study.
LifecycleAtRest ==
    /\ is_finalized = FALSE
    /\ configuration = <<>>
    /\ lifecycle_last = [op |-> "none", outcome |-> "none"]

\* The actuation of each actuator from the per-instance ports, when not under study.
ActuationAtRest ==
    /\ actuation_read = <<>>
    /\ actuation_out = [done |-> FALSE]

\* The cached contact results of a discrete plant and what they are computed from, when not under study.
DiscreteAtRest ==
    /\ source_version = <<>>
    /\ results_cache = <<>>
    /\ returned = [entry |-> "none"]

\* The two evaluations that read the force input ports (CalcNonContactForces, AddInForcesContinuous), when not under study.
GuardAtRest ==
    /\ guard_stack = <<>>
    /\ evaluation_in_progress = FALSE
    /\ port_reads = {}
    /\ guard_error = "none"

\* Separating plane conditions of a collision geometry (CollisionGeometry::OnPlaneSide), when not under study.
PlaneAtRest ==
    /\ collision_geometry = [shape |-> "none", vertices |-> 0]
    /\ rationals = <<>>
    /\ unit_length_vector = FALSE
    /\ plane_last = [op |-> "none", before |-> <<>>, calls |-> 0]

\* Joint limit penalty parameters (JointLimitsPenaltyParametersEstimator), when not under study.
PenaltyAtRest ==
    /\ penalty_in = [kind |-> "none"]
    /\ penalty_out = [done |-> FALSE]

\* Joint reaction forces (CalcReactionForces), when not under study.
ReactionAtRest ==
    /\ reaction_in = <<>>
    /\ reaction_out = [done |-> FALSE, aborted |-> FALSE, array |-> <<>>]

\* The Stribeck friction coefficient at one slip speed, when not under study.
StribeckAtRest ==
    /\ stribeck_in = <<>>
    /\ stribeck_out = [done |-> FALSE, mu |-> <<0, 1>>]

\* The geometries registered on the bodies of a plant under construction, when not under study.
RegistryAtRest ==
    /\ geometry_id_to_body_index_ = <<>>
    /\ visual_geometries_ = [b \in 0 .. (num_bodies - 1) |-> <<>>]
    /\ collision_geometries_ = [b \in 0 .. (num_bodies - 1) |-> <<>>]
    /\ collision_count = 0
    /\ registered_on = <<>>
    /\ find_last = [id |-> -1, ok |-> FALSE, body |-> 0]

\* The hydroelastic computations of a plant instantiated on a scalar type, when not under study.
ScalarAtRest ==
    /\ scalar_type = "double"
    /\ hydro_output = <<>>
    /\ hydro_last = [computation |-> "none", error |-> "", integrated |-> 0]

\* One hydroelastic contact surface, when not under study.
SurfaceAtRest ==
    /\ surface_in = <<>>
    /\ surface_out = [done |-> FALSE, geometryM_friction |-> 0, geometryN_friction |-> 0, bodyA_index |-> 0, bodyB_index |-> 0]

\* One point pair of a continuous plant, when not under study.
PairAtRest ==
    /\ pair_in = <<>>
    /\ pair_out = [done |-> FALSE, records |-> <<>>, F |-> <<>>]

\* The geometry query input port of a context, when not under study.
QueryAtRest ==
    /\ query_connected = FALSE
    /\ query_last = [evaluation |-> "none", connected |-> FALSE, error |-> "", touched |-> FALSE]

\* The plant between construction and use, when not under study.
PlantAtRest ==
    /\ finalized = TRUE
    /\ scene_graph_ = nullptr
    /\ source_id_ = FALSE
    /\ num_collision_geometries_ = 0
    /\ joints_ = 0
    /\ penetration_allowance_ = 1
    /\ penalty_method_contact_parameters_ = [geometry_stiffness |-> <<0, 1>>, dissipation |-> <<0, 1>>, time_scale |-> -1]
    /\ joint_limits_parameters_ = <<>>
    /\ plant_last = [op |-> "none", threw |-> FALSE, deref |-> "none"]

\* The joint limit penalty of one joint, when not under study.
LimitAtRest ==
    /\ limit_in = <<>>
    /\ limit_out = [done |-> FALSE, force |-> 0]

\* The size check of a force accumulator, when not under study.
SizeAtRest ==
    /\ forces_arg = [body |-> <<>>, gen |-> <<>>]
    /\ call = [entry |-> "none", status |-> "none", before |-> <<>>]

\* The cache when it is not under study: nothing declared, nothing stored.
CacheAtRest ==
    /\ ticket_version = <<>>
    /\ cache = <<>>
    /\ last_eval = [slot |-> "none", ran |-> {}, value |-> <<>>]
    /\ evals = 0
    /\ computed = {}

\* The contact forces when they are not under study: no collision geometry.
ContactAtRest ==
    /\ contact_model = "kPoint"
    /\ num_collision_geometries = 0
    /\ point_pairs = <<>>
    /\ surfaces = <<>>
    /\ contact_cache = <<>>
    /\ last = [caller |-> "none", prior |-> <<>>, result |-> <<>>]

\* The discrete step when it is not under study: a plant at rest.
StepAtRest ==
    /\ time_step = (IF is_discrete THEN 1 ELSE 0)
    /\ manager = is_discrete
    /\ x0 = [q |-> 0, v |-> 0]
    /\ updates = [q |-> 0, v |-> 0]
    /\ step = [status |-> "idle", vdot |-> 0]

\* ------------------------------------------------------------------------
\* Plant topology.
\* ------------------------------------------------------------------------
Bodies == 0 .. (num_bodies - 1)

num_velocities == num_bodies - 1

ModelInstances == 1 .. (num_model_instances - 1)

num_actuators == Len(actuators)

num_actuated_dofs(model_instance) ==
    Cardinality({k \in 1 .. num_actuators : actuators[k] = model_instance})

\* The velocity index of the single-dof joint actuator k drives.
ActuatorDof(k) == ((k - 1) % num_velocities) + 1

\* Rotation part of X_WB in the one-dimensional analogue.
R_WB(b) == IF b % 2 = 1 THEN -1 ELSE 1

\* ------------------------------------------------------------------------
\* Force accumulation (MultibodyForces) and its contributors.
\* ------------------------------------------------------------------------
NoError == [kind |-> "none", input |-> "", index |-> 0]

Error(kind, input, index) == [kind |-> kind, input |-> input, index |-> index]

ZeroForces ==
    [body |-> [b \in Bodies |-> SpatialZero],
     gen  |-> [k \in 1 .. num_velocities |-> 0]]

\* Resets the accumulator, then adds the force elements: here a unit force
\* on every body but the world.
CalcForceElementsContribution(forces) ==
    [body |-> [b \in Bodies |->
                 IF b = world_index THEN SpatialZero ELSE [tau |-> 0, f |-> 1]],
     gen  |-> [k \in 1 .. num_velocities |-> 0]]

\* The generalized forces added without the test for NaN.
AddAppliedExternalGeneralizedForces_NoNaNTest(port, forces) ==
    IF ~port.has
      THEN [err |-> NoError, forces |-> forces]
      ELSE [err |-> NoError,
            forces |-> [forces EXCEPT !.gen =
                [k \in 1 .. num_velocities |-> Plus(@[k], port.val[k])]]]

\* Returns [err, forces]: the error thrown (NoError for a normal return) and
\* the accumulator as the call leaves it.
AddAppliedExternalGeneralizedForces(port, forces) ==
    IF ~port.has
      THEN [err |-> NoError, forces |-> forces]
      ELSE IF hasNaN(port.val)
        THEN [err |-> Error("nan", "applied_generalized_force", 0),
              forces |-> forces]
        ELSE [err |-> NoError,
              forces |-> [forces EXCEPT !.gen =
                  [k \in 1 .. num_velocities |-> Plus(@[k], port.val[k])]]]

throw_if_contains_nan(e) ==
    e.p = NaN \/ e.tau = NaN \/ e.f = NaN

RECURSIVE SpatialForcesLoop(_, _, _)
SpatialForcesLoop(list, i, forces) ==
    IF i > Len(list)
      THEN [err |-> NoError, forces |-> forces]
      ELSE LET e == list[i]
               p_BoBq_W == Times(R_WB(e.body_index), e.p)
           IN IF throw_if_contains_nan(e)
                THEN [err |-> Error("nan", "applied_spatial_force", e.body_index),
                      forces |-> forces]
                ELSE SpatialForcesLoop(list, i + 1,
                       [forces EXCEPT !.body[e.body_index] =
                          SpatialPlus(@, Shift([tau |-> e.tau, f |-> e.f],
                                               Times(-1, p_BoBq_W)))])

AddAppliedExternalSpatialForces(port, forces) ==
    IF ~port.has
      THEN [err |-> NoError, forces |-> forces]
      ELSE SpatialForcesLoop(port.val, 1, forces)

\* The first index a loop in increasing order meets.
Min(S) == CHOOSE x \in S : \A y \in S : x <= y

RECURSIVE Concat(_, _)
Concat(read, i) ==
    IF i >= num_model_instances
      THEN <<>>
      ELSE (IF num_actuated_dofs(i) = 0 THEN <<>> ELSE read.inst[i].val)
           \o Concat(read, i + 1)

\* The assembly without the skip of instances that have no actuated dofs.
AssembleActuationInput_NoSkip(read) ==
    IF read.all.has
      THEN LET both == {i \in ModelInstances : read.inst[i].has}
           IN IF both # {}
                THEN [err |-> Error("both_connected", "actuation", Min(both)),
                      u |-> <<>>]
                ELSE IF hasNaN(read.all.val)
                  THEN [err |-> Error("nan", "actuation", 0), u |-> <<>>]
                  ELSE [err |-> NoError, u |-> read.all.val]
      ELSE LET bad == {i \in ModelInstances :
                         ~read.inst[i].has \/ hasNaN(read.inst[i].val)}
           IN IF bad # {}
                THEN LET i == Min(bad)
                     IN IF ~read.inst[i].has
                          THEN [err |-> Error("must_be_connected",
                                              "instance_actuation", i),
                                u |-> <<>>]
                          ELSE [err |-> Error("nan", "instance_actuation", i),
                                u |-> <<>>]
                ELSE [err |-> NoError, u |-> Concat(read, 1)]

\* Returns [err, u]. read = [all, inst]: the all-instances actuation port
\* and the per-instance ports, each [has, val].
AssembleActuationInput(read) ==
    IF read.all.has
      THEN LET both == {i \in ModelInstances : read.inst[i].has}
           IN IF both # {}
                THEN [err |-> Error("both_connected", "actuation", Min(both)),
                      u |-> <<>>]
                ELSE IF hasNaN(read.all.val)
                  THEN [err |-> Error("nan", "actuation", 0), u |-> <<>>]
                  ELSE [err |-> NoError, u |-> read.all.val]
      ELSE LET bad == {i \in ModelInstances :
                         /\ num_actuated_dofs(i) # 0
                         /\ (~read.inst[i].has \/ hasNaN(read.inst[i].val))}
           IN IF bad # {}
                THEN LET i == Min(bad)
                     IN IF ~read.inst[i].has
                          THEN [err |-> Error("must_be_connected",
                                              "instance_actuation", i),
                                u |-> <<>>]
                          ELSE [err |-> Error("nan", "instance_actuation", i),
                                u |-> <<>>]
                ELSE [err |-> NoError, u |-> Concat(read, 1)]

RECURSIVE AddInOneForce(_, _, _)
AddInOneForce(u, k, gen) ==
    IF k > num_actuators
      THEN gen
      ELSE AddInOneForce(u, k + 1,
             [gen EXCEPT ![ActuatorDof(k)] = Plus(@, u[k])])

AddJointActuationForces(read, forces) ==
    IF num_actuators > 0
      THEN LET a == AssembleActuationInput(read)
           IN IF a.err # NoError
                THEN [err |-> a.err, forces |-> forces]
                ELSE [err |-> NoError,
                      forces |-> [forces EXCEPT !.gen =
                                     AddInOneForce(a.u, 1, @)]]
      ELSE [err |-> NoError, forces |-> forces]

\* The penalty without the clamp at zero.
CalcPenaltyForce_NoClamp(lower_limit, upper_limit, stiffness, damping, q, v) ==
    IF q > upper_limit
      THEN -stiffness * (q - upper_limit) - damping * v
      ELSE IF q < lower_limit
        THEN -stiffness * (q - lower_limit) - damping * v
        ELSE 0

\* Joint limits: one joint (velocity index 1) has limits [0, 1], with
\* penalty stiffness 2 and damping 1.
CalcPenaltyForce(lower_limit, upper_limit, stiffness, damping, q, v) ==
    IF q > upper_limit
      THEN LET limit_force == -stiffness * (q - upper_limit) - damping * v
           IN IF limit_force < 0 THEN limit_force ELSE 0
      ELSE IF q < lower_limit
        THEN LET limit_force == -stiffness * (q - lower_limit) - damping * v
             IN IF limit_force > 0 THEN limit_force ELSE 0
        ELSE 0

AddJointLimitsPenaltyForces(q, v, forces) ==
    [forces EXCEPT !.gen[1] = Plus(@, CalcPenaltyForce(0, 1, 2, 1, q, v))]

\* ------------------------------------------------------------------------
\* Inputs: what an input port holds when it is read.
\* ------------------------------------------------------------------------
Vectors(n, x) ==
    {[i \in 1 .. n |-> x]} \cup
    {[i \in 1 .. n |-> IF i = k THEN NaN ELSE x] : k \in 1 .. n}

PortValues(n, x) ==
    {[has |-> FALSE, val |-> <<>>]} \cup
    {[has |-> TRUE, val |-> vec] : vec \in Vectors(n, x)}

SpatialEntries ==
    {[body_index |-> b, p |-> 1, tau |-> 0, f |-> 4] : b \in Bodies} \cup
    {[body_index |-> num_bodies - 1, p |-> NaN, tau |-> 0, f |-> 4],
     [body_index |-> num_bodies - 1, p |-> 1, tau |-> NaN, f |-> 4],
     [body_index |-> num_bodies - 1, p |-> 1, tau |-> 0, f |-> NaN]}

SpatialPortValues ==
    {[has |-> FALSE, val |-> <<>>]} \cup
    {[has |-> TRUE, val |-> l] :
        l \in UNION {[1 .. n -> SpatialEntries] : n \in 0 .. MaxSpatialForces}}

ActuationReads ==
    {r \in [all : PortValues(num_actuators, 8),
            inst : [ModelInstances ->
                      UNION {PortValues(n, 8) : n \in 0 .. num_actuators}]] :
        \A i \in ModelInstances :
            r.inst[i] \in PortValues(num_actuated_dofs(i), 8)}

\* ------------------------------------------------------------------------
\* CalcNonContactForces as a call stack per context.  A frame is one active
\* call; its pc names the contributor that runs next.  The bottom frame
\* stays, as "returned" or "threw", for its caller to look at.
\* ------------------------------------------------------------------------
Contexts == DOMAIN stack

Top(c) == stack[c][Len(stack[c])]

Idle(c) ==
    /\ exc[c] = NoError
    /\ \/ stack[c] = <<>>
       \/ Len(stack[c]) = 1 /\ stack[c][1].pc \in {"returned", "threw"}

Running(c, pc) ==
    /\ exc[c] = NoError
    /\ stack[c] # <<>>
    /\ Top(c).pc = pc

Frame(pc, forces, entry, read, err) ==
    [pc |-> pc, forces |-> forces, entry |-> entry, read |-> read, err |-> err]

\* No scoped guard: nothing resets the marker when the call is left.
ScopeExit_NoReset(c) == in_progress

\* The scoped guard's exit: the computation is no longer in progress.
ScopeExit(c) == [in_progress EXCEPT ![c] = FALSE]

\* The entry without the test of the marker.
EnterCalcNonContactForces_NoThrow(c, below, forces) ==
    /\ in_progress' = [in_progress EXCEPT ![c] = TRUE]
    /\ stack' = [stack EXCEPT ![c] = Append(below,
           LET f == CalcForceElementsContribution(forces)
           IN [pc |-> "generalized", forces |-> f, entry |-> f,
               read |-> <<>>, err |-> NoError])]
    /\ UNCHANGED exc

\* ThrowIfNonContactForceInProgress, then CalcForceElementsContribution:
\* the call's entry, on the frames `below` with the caller's accumulator.
EnterCalcNonContactForces(c, below, forces) ==
    IF in_progress[c]
      THEN /\ exc' = [exc EXCEPT ![c] = Error("algebraic_loop", "", 0)]
           /\ stack' = [stack EXCEPT ![c] = below]
           /\ UNCHANGED in_progress
      ELSE /\ in_progress' = [in_progress EXCEPT ![c] = TRUE]
           /\ stack' = [stack EXCEPT ![c] = Append(below,
                  LET f == CalcForceElementsContribution(forces)
                  IN Frame("generalized", f, f, <<>>, NoError))]
           /\ UNCHANGED exc

\* A caller (CalcReactionForces) evaluates the non-contact forces.
CalcNonContactForces(c) ==
    /\ Idle(c)
    /\ EnterCalcNonContactForces(c, <<>>, ZeroForces)
    /\ prior_loop' = [prior_loop EXCEPT ![c] =
          stack[c] # <<>> /\ stack[c][1].err.kind = "algebraic_loop"]
    /\ UNCHANGED <<is_discrete, actuators, pending_warning>>

\* The input port being evaluated is fed back from an output of the plant
\* that needs the non-contact forces on the same context.
FeedbackReentry(c) ==
    /\ \/ Running(c, "generalized")
       \/ Running(c, "spatial")
       \/ Running(c, "actuation") /\ num_actuators > 0
    /\ Len(stack[c]) < MaxDepth
    /\ EnterCalcNonContactForces(c, stack[c], ZeroForces)
    /\ UNCHANGED <<is_discrete, actuators, pending_warning, prior_loop>>

\* One contributor of AddInForcesFromInputPorts acts on the top frame:
\* r = [err, forces] is its result on the input `read`.
Contribute(c, r, read, next) ==
    LET n == Len(stack[c])
    IN IF r.err # NoError
         THEN /\ exc' = [exc EXCEPT ![c] = r.err]
              /\ stack' = [stack EXCEPT ![c][n] =
                    [@ EXCEPT !.forces = r.forces, !.read = read]]
         ELSE /\ stack' = [stack EXCEPT ![c][n] =
                    [@ EXCEPT !.pc = next, !.forces = r.forces, !.read = read]]
              /\ UNCHANGED exc

StepGeneralizedForces(c) ==
    /\ Running(c, "generalized")
    /\ \E port \in PortValues(num_velocities, 2) :
          Contribute(c, AddAppliedExternalGeneralizedForces(port, Top(c).forces),
                     port, "spatial")
    /\ UNCHANGED <<is_discrete, actuators, in_progress, pending_warning, prior_loop>>

StepSpatialForces(c) ==
    /\ Running(c, "spatial")
    /\ \E port \in SpatialPortValues :
          Contribute(c, AddAppliedExternalSpatialForces(port, Top(c).forces),
                     port, "actuation")
    /\ UNCHANGED <<is_discrete, actuators, in_progress, pending_warning, prior_loop>>

StepActuationForces(c) ==
    /\ Running(c, "actuation")
    /\ \E read \in ActuationReads :
          Contribute(c, AddJointActuationForces(read, Top(c).forces),
                     read, "limits")
    /\ UNCHANGED <<is_discrete, actuators, in_progress, pending_warning, prior_loop>>

\* The return that logs the warning without clearing it.
ReturnNonContactForces_KeepsWarning(c) ==
    /\ Running(c, "limits")
    /\ LET n == Len(stack[c])
       IN \E q \in -1 .. 2, v \in -1 .. 1 :
            LET f == IF is_discrete
                       THEN AddJointLimitsPenaltyForces(q, v, Top(c).forces)
                       ELSE Top(c).forces
            IN stack' = [stack EXCEPT ![c] =
                 IF n = 1
                   THEN <<[Top(c) EXCEPT !.pc = "returned", !.forces = f]>>
                   ELSE SubSeq(stack[c], 1, n - 1)]
    /\ pending_warning' = pending_warning
    /\ in_progress' = ScopeExit(c)
    /\ UNCHANGED <<is_discrete, actuators, exc, prior_loop>>

\* The end of CalcNonContactForces: joint limits (discrete) or the pending
\* warning (continuous), then the return, which runs the scoped guard.
ReturnNonContactForces(c) ==
    /\ Running(c, "limits")
    /\ LET n == Len(stack[c])
       IN \E q \in -1 .. 2, v \in -1 .. 1 :
            LET f == IF is_discrete
                       THEN AddJointLimitsPenaltyForces(q, v, Top(c).forces)
                       ELSE Top(c).forces
            IN stack' = [stack EXCEPT ![c] =
                 IF n = 1
                   THEN <<[Top(c) EXCEPT !.pc = "returned", !.forces = f]>>
                   ELSE SubSeq(stack[c], 1, n - 1)]
    /\ pending_warning' = IF is_discrete THEN pending_warning ELSE FALSE
    /\ in_progress' = ScopeExit(c)
    /\ UNCHANGED <<is_discrete, actuators, exc, prior_loop>>

\* An exception leaves every active frame; each frame's scoped guard runs.
\* The outermost caller is left with its accumulator as the call left it.
Unwind(c) ==
    /\ exc[c] # NoError
    /\ stack' = [stack EXCEPT ![c] =
          IF stack[c] = <<>>
            THEN <<Frame("threw", ZeroForces, ZeroForces, <<>>, exc[c])>>
            ELSE <<[stack[c][1] EXCEPT !.pc = "threw", !.err = exc[c],
                      !.read = <<>>]>>]
    /\ in_progress' = IF stack[c] = <<>> THEN in_progress ELSE ScopeExit(c)
    /\ exc' = [exc EXCEPT ![c] = NoError]
    /\ UNCHANGED <<is_discrete, actuators, pending_warning, prior_loop>>

ActuatorTables ==
    UNION {[1 .. n -> ModelInstances] : n \in 0 .. MaxActuators}

InitForces ==
    /\ is_discrete \in BOOLEAN
    /\ actuators \in ActuatorTables
    /\ stack = [c \in {1} |-> <<>>]
    /\ in_progress = [c \in {1} |-> FALSE]
    /\ exc = [c \in {1} |-> NoError]
    /\ pending_warning = ~is_discrete
    /\ prior_loop = [c \in {1} |-> FALSE]
    /\ StepAtRest
    /\ ContactAtRest
    /\ CacheAtRest
    /\ SizeAtRest
    /\ LimitAtRest
    /\ PlantAtRest
    /\ QueryAtRest
    /\ PairAtRest
    /\ SurfaceAtRest
    /\ ScalarAtRest
    /\ RegistryAtRest
    /\ StribeckAtRest
    /\ ReactionAtRest
    /\ PenaltyAtRest
    /\ PlaneAtRest
    /\ GuardAtRest
    /\ DiscreteAtRest
    /\ ActuationAtRest
    /\ LifecycleAtRest

NextForces ==
    \/ \E c \in Contexts : CalcNonContactForces(c) /\ UNCHANGED otherThanForces
    \/ \E c \in Contexts : FeedbackReentry(c) /\ UNCHANGED otherThanForces
    \/ \E c \in Contexts : StepGeneralizedForces(c) /\ UNCHANGED otherThanForces
    \/ \E c \in Contexts : StepSpatialForces(c) /\ UNCHANGED otherThanForces
    \/ \E c \in Contexts : StepActuationForces(c) /\ UNCHANGED otherThanForces
    \/ \E c \in Contexts : ReturnNonContactForces(c) /\ UNCHANGED otherThanForces
    \/ \E c \in Contexts : Unwind(c) /\ UNCHANGED otherThanForces

SpecForces == InitForces /\ [][NextForces]_vars

\* ------------------------------------------------------------------------
\* Properties of the non-contact force evaluation.
\* ------------------------------------------------------------------------
ActiveCall(c) ==
    stack[c] # <<>> /\ stack[c][1].pc \notin {"returned", "threw"}

\* C1: a re-entrant CalcNonContactForces on one context fails with the
\* algebraic-loop error at the inner entry, before the inner entry computes
\* any force (it never gets a frame, and the frames below are untouched);
\* the error is raised nowhere else; and an evaluation started after the
\* failed one has unwound passes the guard and starts computing.
C1_ReentryFailsAtInnerEntry ==
    [][\A c \in Contexts :
         /\ Len(stack'[c]) <= 1
         /\ (exc[c] = NoError /\ exc'[c].kind = "algebraic_loop")
               => (ActiveCall(c) /\ stack'[c] = stack[c])
         /\ (Idle(c) /\ stack'[c] # stack[c])
               => (exc'[c] = NoError /\ Len(stack'[c]) = 1
                   /\ stack'[c][1].pc = "generalized")]_vars

\* An evaluation that follows one ended by the algebraic-loop error has
\* returned normally.
C1_Witness ==
    \E c \in Contexts :
        prior_loop[c] /\ stack[c] # <<>> /\ stack[c][1].pc = "returned"

\* C2: the in-progress marker of a context is true exactly while a
\* CalcNonContactForces call is active on it; after the outermost call has
\* exited, by return or by any exception, it is false.
C2_MarkerOnlyWhileActive ==
    \A c \in Contexts : in_progress[c] <=> ActiveCall(c)

\* The outermost call was left by an invalid-input error and the marker is
\* false again.
C2_Witness ==
    \E c \in Contexts :
        /\ stack[c] # <<>> /\ stack[c][1].pc = "threw"
        /\ stack[c][1].err.kind \in {"nan", "both_connected", "must_be_connected"}
        /\ ~in_progress[c]

\* The contributor at pc has just failed on the top frame's `read`.
Failed(c, pc) ==
    /\ stack[c] # <<>> /\ Top(c).pc = pc
    /\ exc[c] # NoError /\ exc[c].kind # "algebraic_loop"

\* The actuation input was assembled from the top frame's `read`, with the
\* error err.
Assembled(c, err) ==
    /\ num_actuators > 0
    /\ \/ Failed(c, "actuation") /\ err = exc[c]
       \/ stack[c] # <<>> /\ Top(c).pc \in {"limits", "returned"} /\ err = NoError

\* C8: assembling the actuation input fails with the both-connected error
\* naming an instance whose own port is connected whenever the all-instances
\* port and an instance port are both connected; with the all-instances port
\* unconnected and an actuated instance's port unconnected it fails with an
\* error naming a model instance (the first, in index order, whose port is
\* unconnected or holds NaN; the must-be-connected error when no port holds
\* NaN); and a must-be-connected error never names an instance without
\* actuated dofs: unconnected ports of such instances are no error.
C8_ActuationPortErrors ==
    \A c \in Contexts : \A err \in {exc[c], NoError} :
        Assembled(c, err) =>
            LET r == Top(c).read
                unconnected == {i \in ModelInstances :
                                  num_actuated_dofs(i) > 0 /\ ~r.inst[i].has}
                withNaN == {i \in ModelInstances :
                              r.inst[i].has /\ hasNaN(r.inst[i].val)}
            IN /\ (r.all.has /\ \E i \in ModelInstances : r.inst[i].has)
                    => /\ err.kind = "both_connected"
                       /\ err.index \in ModelInstances
                       /\ r.inst[err.index].has
               /\ (~r.all.has /\ unconnected # {})
                    => /\ err.kind \in {"must_be_connected", "nan"}
                       /\ err.input = "instance_actuation"
                       /\ err.index \in unconnected \cup withNaN
                       /\ withNaN = {} =>
                            /\ err.kind = "must_be_connected"
                            /\ err.index = Min(unconnected)
               /\ err.kind = "must_be_connected"
                    => err.index \in unconnected
               /\ (~r.all.has /\ unconnected = {} /\ withNaN = {})
                    => err = NoError

\* The assembly succeeded with the port of an instance without actuated
\* dofs unconnected, next to an actuated instance.
C8_Witness ==
    \E c \in Contexts :
        /\ Assembled(c, NoError)
        /\ \E i \in ModelInstances :
              num_actuated_dofs(i) = 0 /\ ~Top(c).read.inst[i].has
        /\ ~Top(c).read.all.has

ForcesHaveNaN(forces) ==
    \/ \E b \in Bodies : forces.body[b].tau = NaN \/ forces.body[b].f = NaN
    \/ hasNaN(forces.gen)

ActuationReadHasNaN(r) ==
    \/ r.all.has /\ hasNaN(r.all.val)
    \/ \E i \in ModelInstances : r.inst[i].has /\ hasNaN(r.inst[i].val)

\* C9: a NaN in the applied-generalized-force input, in an entry of the
\* applied-spatial-force input or in a connected actuation input makes the
\* accumulation fail; a NaN error names an input that holds a NaN (the port,
\* the model instance, the body of the first offending spatial force); and
\* no accumulator ever holds a NaN.
C9_NaNInputsFail ==
    \A c \in Contexts :
        /\ \A n \in 1 .. Len(stack[c]) : ~ForcesHaveNaN(stack[c][n].forces)
        /\ (exc[c] = NoError /\ stack[c] # <<>>) =>
              LET r == Top(c).read
              IN /\ Top(c).pc = "spatial" => ~(r.has /\ hasNaN(r.val))
                 /\ Top(c).pc = "actuation" =>
                       ~(r.has /\ \E k \in 1 .. Len(r.val) :
                                      throw_if_contains_nan(r.val[k]))
                 /\ (Top(c).pc \in {"limits", "returned"} /\ num_actuators > 0)
                       => ~ActuationReadHasNaN(r)
        /\ Failed(c, "generalized") =>
              /\ exc[c] = Error("nan", "applied_generalized_force", 0)
              /\ hasNaN(Top(c).read.val)
        /\ Failed(c, "spatial") =>
              /\ exc[c].kind = "nan" /\ exc[c].input = "applied_spatial_force"
              /\ \E k \in 1 .. Len(Top(c).read.val) :
                    /\ throw_if_contains_nan(Top(c).read.val[k])
                    /\ Top(c).read.val[k].body_index = exc[c].index
        /\ (Failed(c, "actuation") /\ exc[c].kind = "nan") =>
              IF exc[c].input = "actuation"
                THEN hasNaN(Top(c).read.all.val)
                ELSE /\ exc[c].input = "instance_actuation"
                     /\ hasNaN(Top(c).read.inst[exc[c].index].val)
        /\ (Failed(c, "actuation") /\ ~ActuationReadHasNaN(Top(c).read))
              => exc[c].kind # "nan"

\* A NaN in the second entry of the spatial-force list has been refused.
C9_Witness ==
    \E c \in Contexts :
        /\ Failed(c, "spatial")
        /\ Len(Top(c).read.val) = 2
        /\ ~throw_if_contains_nan(Top(c).read.val[1])

\* C10: when AddInForcesFromInputPorts fails with a NaN error, the caller's
\* accumulator holds what it held when the call began.
C10_NoPartialResult ==
    \A c \in Contexts :
        (stack[c] # <<>> /\ stack[c][1].pc = "threw"
            /\ stack[c][1].err.kind = "nan")
          => stack[c][1].forces = stack[c][1].entry

\* ------------------------------------------------------------------------
\* The discrete step (CalcDiscreteStep).
\* ------------------------------------------------------------------------
\* The velocity-to-position-rate map of the kinematics provider at
\* configuration q: qdot = N(q) v, with N depending on q.
MapVelocityToQDot(q, v) == (IF q % 2 = 0 THEN 1 ELSE 2) * v

\* A manager that maps the prior velocity instead of the next one.
ManagerCalcDiscreteValues_MapsPriorVelocity(x, vdot) ==
    LET v_next == x.v + time_step * vdot
    IN [q |-> x.q + time_step * MapVelocityToQDot(x.q, x.v), v |-> v_next]

\* DiscreteUpdateManager::CalcDiscreteValues with the solver's vdot.
ManagerCalcDiscreteValues(x, vdot) ==
    LET v_next == x.v + time_step * vdot
    IN [q |-> x.q + time_step * MapVelocityToQDot(x.q, v_next), v |-> v_next]

\* The discrete forward dynamics: "threw" when the geometry query input is
\* required and missing, "aborted" when no manager is installed
\* (DRAKE_DEMAND), else the manager's accelerations.
DoCalcForwardDynamicsDiscrete(geometry_ok) ==
    IF ~geometry_ok THEN "threw"
    ELSE IF ~manager THEN "aborted"
    ELSE "ok"

\* The step of CalcDiscreteStep without a manager, once vdot is known.
FallbackDiscreteStep(x, vdot) ==
    LET v_next == x.v + time_step * vdot
        qdot_next == MapVelocityToQDot(x.q, v_next)
        q_next == x.q + time_step * qdot_next
    IN [q |-> q_next, v |-> v_next]

\* A step that writes the velocity part of the update before the forward
\* dynamics are known to succeed.
StepOutcome_EarlyWrite(vdot, geometry_ok, solver_ok) ==
    IF manager
      THEN IF solver_ok
             THEN [status |-> "succeeded",
                   updates |-> ManagerCalcDiscreteValues(x0, vdot)]
             ELSE [status |-> "threw", updates |-> updates]
      ELSE LET fd == DoCalcForwardDynamicsDiscrete(geometry_ok)
           IN IF fd = "ok"
                THEN [status |-> "succeeded",
                      updates |-> FallbackDiscreteStep(x0, vdot)]
                ELSE [status |-> fd,
                      updates |-> [updates EXCEPT !.v = x0.v + time_step]]

\* What CalcDiscreteStep does with the solver's or the forward dynamics'
\* vdot: [status, updates].
StepOutcome(vdot, geometry_ok, solver_ok) ==
    IF manager
      THEN IF solver_ok
             THEN [status |-> "succeeded",
                   updates |-> ManagerCalcDiscreteValues(x0, vdot)]
             ELSE [status |-> "threw", updates |-> updates]
      ELSE LET fd == DoCalcForwardDynamicsDiscrete(geometry_ok)
           IN IF fd = "ok"
                THEN [status |-> "succeeded",
                      updates |-> FallbackDiscreteStep(x0, vdot)]
                ELSE [status |-> fd, updates |-> updates]

CalcDiscreteStep ==
    /\ step.status = "idle"
    /\ \E vdot \in -1 .. 1, geometry_ok \in BOOLEAN, solver_ok \in BOOLEAN :
          LET r == StepOutcome(vdot, geometry_ok, solver_ok)
          IN /\ updates' = r.updates
             /\ step' = [status |-> r.status, vdot |-> vdot]
    /\ UNCHANGED <<time_step, manager, x0>>

\* The framework copies a successful update into the context's state.
ApplyUpdates ==
    /\ step.status = "succeeded"
    /\ updates.q \in -MaxState .. MaxState
    /\ updates.v \in -MaxState .. MaxState
    /\ x0' = updates
    /\ step' = [status |-> "idle", vdot |-> 0]
    /\ UNCHANGED <<time_step, manager, updates>>

\* The caller drops the result of a step (an error, or an update it does
\* not apply) and goes on with the prior state.
DropUpdates ==
    /\ step.status \in {"succeeded", "threw"}
    /\ step' = [status |-> "idle", vdot |-> 0]
    /\ UNCHANGED <<time_step, manager, x0, updates>>

SetDiscreteUpdateManager ==
    /\ step.status = "idle"
    /\ ~manager
    /\ manager' = TRUE
    /\ UNCHANGED <<time_step, x0, updates, step>>

ForcesAtRest ==
    /\ actuators = <<>>
    /\ stack = [c \in {1} |-> <<>>]
    /\ in_progress = [c \in {1} |-> FALSE]
    /\ exc = [c \in {1} |-> NoError]
    /\ pending_warning = FALSE
    /\ prior_loop = [c \in {1} |-> FALSE]

InitStep ==
    /\ time_step \in 1 .. 2
    /\ manager \in BOOLEAN
    /\ x0 \in [q : -1 .. 1, v : -1 .. 1]
    /\ updates = x0
    /\ step = [status |-> "idle", vdot |-> 0]
    /\ is_discrete = TRUE
    /\ ForcesAtRest
    /\ ContactAtRest
    /\ CacheAtRest
    /\ SizeAtRest
    /\ LimitAtRest
    /\ PlantAtRest
    /\ QueryAtRest
    /\ PairAtRest
    /\ SurfaceAtRest
    /\ ScalarAtRest
    /\ RegistryAtRest
    /\ StribeckAtRest
    /\ ReactionAtRest
    /\ PenaltyAtRest
    /\ PlaneAtRest
    /\ GuardAtRest
    /\ DiscreteAtRest
    /\ ActuationAtRest
    /\ LifecycleAtRest

NextStep ==
    \/ CalcDiscreteStep /\ UNCHANGED otherThanStep
    \/ ApplyUpdates /\ UNCHANGED otherThanStep
    \/ DropUpdates /\ UNCHANGED otherThanStep
    \/ SetDiscreteUpdateManager /\ UNCHANGED otherThanStep

SpecStep == InitStep /\ [][NextStep]_vars

\* C4: a completed step leaves in the update v_next = v0 + h vdot and
\* q_next = q0 + h map(q0, v_next), the map taken at the prior q0; with
\* vdot = 0 that is v_next = v0 and q_next = q0 + h map(q0, v0).
C4_StepFormula ==
    step.status = "succeeded" =>
        /\ updates.v = x0.v + time_step * step.vdot
        /\ updates.q = x0.q + time_step * MapVelocityToQDot(x0.q, updates.v)
        /\ step.vdot = 0 =>
              /\ updates.v = x0.v
              /\ updates.q = x0.q + time_step * MapVelocityToQDot(x0.q, x0.v)

\* A step with vdot = 0 from a moving state at an odd configuration, where
\* the map is not the identity.
C4_Witness ==
    /\ step.status = "succeeded" /\ step.vdot = 0
    /\ x0.v # 0 /\ x0.q % 2 = 1

\* C5: a step that fails leaves the update buffer and the context's state
\* exactly as they were, and a step that succeeds writes q and v together:
\* the buffer never holds a new v with an old q or a new q with an old v.
C5_StepIsAtomic ==
    [][(step.status = "idle" /\ step'.status # "idle") =>
          /\ x0' = x0
          /\ step'.status \in {"threw", "aborted"} => updates' = updates
          /\ step'.status = "succeeded" =>
                updates' = [q |-> x0.q + time_step *
                                    MapVelocityToQDot(x0.q,
                                        x0.v + time_step * step'.vdot),
                            v |-> x0.v + time_step * step'.vdot]]_vars

\* A step failed (the geometry query input was missing) from a moving
\* state, where a partial write would show.
C5_Witness ==
    step.status = "threw" /\ ~manager /\ x0.v # 0 /\ updates = x0

\* C6: on a discrete plant without a discrete update manager a step is
\* carried out by the fallback and completes: it does not fail for lack of
\* a manager.
C6_FallbackStepCompletes ==
    ~manager => step.status # "aborted"

\* ------------------------------------------------------------------------
\* The contact forces (CalcAndAddSpatialContactForcesContinuous).
\* ------------------------------------------------------------------------
ContactModels == {"kPoint", "kHydroelastic", "kHydroelasticWithFallback"}

SpatialNegate(F) == [tau |-> Times(-1, F.tau), f |-> Times(-1, F.f)]

ZeroArray == [b \in Bodies |-> SpatialZero]

BodyPairs == {ab \in Bodies \X Bodies : ab[1] < ab[2]}

\* A point pair contact between bodies A < B: the force on B at the contact
\* point and the offsets from the contact point to the body origins.
PointPairContacts ==
    {[A |-> ab[1], B |-> ab[2], f |-> 2, p_CoAo |-> 0, p_CoBo |-> 1] :
        ab \in BodyPairs}

\* A contact surface between bodies A < B with the traction integrated and
\* shifted to the two body origins.
ContactSurfaces ==
    {[A |-> ab[1], B |-> ab[2], F_Ao_W |-> [tau |-> 0, f |-> -3],
      F_Bo_W |-> [tau |-> 1, f |-> 3]] :
        ab \in BodyPairs}

SeqsUpTo(S, n) == UNION {[1 .. k -> S] : k \in 0 .. n}

RECURSIVE PenaltyLoop(_, _, _)
PenaltyLoop(pairs, pair_index, F) ==
    IF pair_index > Len(pairs) THEN F
    ELSE LET pair == pairs[pair_index]
             F_AC_W == [tau |-> 0, f |-> -pair.f]
             F_AAo_W == Shift(F_AC_W, pair.p_CoAo)
             F_BBo_W == SpatialNegate(Shift(F_AC_W, pair.p_CoBo))
             F1 == IF pair.A # world_index
                     THEN [F EXCEPT ![pair.A] = SpatialPlus(@, F_AAo_W)]
                     ELSE F
             F2 == IF pair.B # world_index
                     THEN [F1 EXCEPT ![pair.B] = SpatialPlus(@, F_BBo_W)]
                     ELSE F1
         IN PenaltyLoop(pairs, pair_index + 1, F2)

CalcAndAddContactForcesByPenaltyMethod(F_BBo_W_array) ==
    IF num_collision_geometries = 0 THEN F_BBo_W_array
    ELSE PenaltyLoop(point_pairs, 1, F_BBo_W_array)

RECURSIVE HydroLoop(_, _, _)
HydroLoop(all_surfaces, i, F) ==
    IF i > Len(all_surfaces) THEN F
    ELSE LET surface == all_surfaces[i]
             F1 == IF surface.A # world_index
                     THEN [F EXCEPT ![surface.A] =
                              SpatialPlus(@, surface.F_Ao_W)]
                     ELSE F
             F2 == IF surface.B # world_index
                     THEN [F1 EXCEPT ![surface.B] =
                              SpatialPlus(@, surface.F_Bo_W)]
                     ELSE F1
         IN HydroLoop(all_surfaces, i + 1, F2)

\* The cached hydroelastic forces: one spatial force per body, from zero.
EvalHydroelasticContactForces == HydroLoop(surfaces, 1, ZeroArray)

CalcAndAddSpatialContactForcesContinuous(F_BBo_W_array) ==
    IF num_collision_geometries = 0 THEN F_BBo_W_array
    ELSE CASE contact_model = "kPoint" ->
                CalcAndAddContactForcesByPenaltyMethod(F_BBo_W_array)
           [] contact_model = "kHydroelastic" ->
                EvalHydroelasticContactForces
           [] contact_model = "kHydroelasticWithFallback" ->
                LET F == CalcAndAddContactForcesByPenaltyMethod(F_BBo_W_array)
                    Fhydro_BBo_W_all == EvalHydroelasticContactForces
                IN [i \in Bodies |-> SpatialPlus(F[i], Fhydro_BBo_W_all[i])]

\* The calculator of the cache entry of the spatial contact forces.
CalcSpatialContactForcesContinuous ==
    /\ ~is_discrete
    /\ contact_cache = <<>>
    /\ contact_cache' = CalcAndAddSpatialContactForcesContinuous(ZeroArray)
    /\ last' = [caller |-> "CalcSpatialContactForcesContinuous",
                prior |-> ZeroArray, result |-> contact_cache']
    /\ UNCHANGED <<contact_model, num_collision_geometries, point_pairs,
                   surfaces>>

\* The body forces CalcNonContactForces leaves in a fresh accumulator: the
\* force elements and an externally applied force on the last body.
NonContactBodyForces(applied) ==
    LET F == CalcForceElementsContribution(ZeroForces).body
    IN [F EXCEPT ![num_bodies - 1] = SpatialPlus(@, [tau |-> 0, f |-> applied])]

\* CalcReactionForces up to the inverse dynamics: the applied forces it
\* reconstructs.
CalcReactionForces ==
    /\ \E applied \in 0 .. 1 :
          LET Fapplied_Bo_W_array == NonContactBodyForces(applied)
          IN last' = [caller |-> "CalcReactionForces",
                      prior |-> Fapplied_Bo_W_array,
                      result |->
                        IF ~is_discrete
                          THEN CalcAndAddSpatialContactForcesContinuous(
                                   Fapplied_Bo_W_array)
                          ELSE CalcAndAddContactForcesByPenaltyMethod(
                                   Fapplied_Bo_W_array)]
    /\ UNCHANGED <<contact_model, num_collision_geometries, point_pairs,
                   surfaces, contact_cache>>

\* AddInForcesContinuous: the cached contact forces summed into the applied
\* body forces.
AddInForcesContinuous ==
    /\ ~is_discrete
    /\ contact_cache # <<>>
    /\ \E applied \in 0 .. 1 :
          LET Fapp_BBo_W_array == NonContactBodyForces(applied)
          IN last' = [caller |-> "AddInForcesContinuous",
                      prior |-> Fapp_BBo_W_array,
                      result |-> [i \in Bodies |->
                          SpatialPlus(Fapp_BBo_W_array[i], contact_cache[i])]]
    /\ UNCHANGED <<contact_model, num_collision_geometries, point_pairs,
                   surfaces, contact_cache>>

\* The context's state changes: other contacts, the cache out of date, and
\* the last accumulation, made for the old state, forgotten.
SetContactState ==
    /\ num_collision_geometries > 0
    /\ \E pairs \in SeqsUpTo(PointPairContacts, MaxContacts),
          all_surfaces \in SeqsUpTo(ContactSurfaces, MaxContacts) :
          /\ <<pairs, all_surfaces>> # <<point_pairs, surfaces>>
          /\ point_pairs' = pairs
          /\ surfaces' = all_surfaces
    /\ contact_cache' = <<>>
    /\ last' = [caller |-> "none", prior |-> <<>>, result |-> <<>>]
    /\ UNCHANGED <<contact_model, num_collision_geometries>>

\* The contact results in the order the hydroelastic records come first.
CalcContactResultsContinuous_HydroFirst ==
    IF num_collision_geometries = 0 THEN <<>>
    ELSE LET point == [i \in DOMAIN point_pairs |->
                         [kind |-> "point_pair", A |-> point_pairs[i].A,
                          B |-> point_pairs[i].B, f |-> point_pairs[i].f]]
             hydro == [i \in DOMAIN surfaces |->
                         [kind |-> "hydroelastic", A |-> surfaces[i].A,
                          B |-> surfaces[i].B, f |-> surfaces[i].F_Ao_W.f]]
         IN CASE contact_model = "kPoint" -> point
              [] contact_model = "kHydroelastic" -> hydro
              [] contact_model = "kHydroelasticWithFallback" -> hydro \o point

\* CalcContactResultsContinuous: the results are cleared, then each contact
\* representation of the model appends its records.
CalcContactResultsContinuous ==
    IF num_collision_geometries = 0 THEN <<>>
    ELSE LET point == [i \in DOMAIN point_pairs |->
                         [kind |-> "point_pair", A |-> point_pairs[i].A,
                          B |-> point_pairs[i].B, f |-> point_pairs[i].f]]
             hydro == [i \in DOMAIN surfaces |->
                         [kind |-> "hydroelastic", A |-> surfaces[i].A,
                          B |-> surfaces[i].B, f |-> surfaces[i].F_Ao_W.f]]
         IN CASE contact_model = "kPoint" -> point
              [] contact_model = "kHydroelastic" -> hydro
              [] contact_model = "kHydroelasticWithFallback" -> point \o hydro

\* The contact results of a continuous plant are evaluated.
EvalContactResults ==
    /\ ~is_discrete
    /\ last' = [caller |-> "CalcContactResultsContinuous", prior |-> <<>>,
                result |-> CalcContactResultsContinuous]
    /\ UNCHANGED <<contact_model, num_collision_geometries, point_pairs,
                   surfaces, contact_cache>>

InitContact ==
    /\ is_discrete \in BOOLEAN
    /\ contact_model \in ContactModels
    /\ num_collision_geometries \in 0 .. 1
    /\ point_pairs = <<>>
    /\ surfaces = <<>>
    /\ contact_cache = <<>>
    /\ last = [caller |-> "none", prior |-> <<>>, result |-> <<>>]
    /\ ForcesAtRest
    /\ StepAtRest
    /\ CacheAtRest
    /\ SizeAtRest
    /\ LimitAtRest
    /\ PlantAtRest
    /\ QueryAtRest
    /\ PairAtRest
    /\ SurfaceAtRest
    /\ ScalarAtRest
    /\ RegistryAtRest
    /\ StribeckAtRest
    /\ ReactionAtRest
    /\ PenaltyAtRest
    /\ PlaneAtRest
    /\ GuardAtRest
    /\ DiscreteAtRest
    /\ ActuationAtRest
    /\ LifecycleAtRest

NextContact ==
    \/ CalcSpatialContactForcesContinuous /\ UNCHANGED otherThanContact
    \/ CalcReactionForces /\ UNCHANGED otherThanContact
    \/ AddInForcesContinuous /\ UNCHANGED otherThanContact
    \/ SetContactState /\ UNCHANGED otherThanContact
    \/ EvalContactResults /\ UNCHANGED otherThanContact

SpecContact == InitContact /\ [][NextContact]_vars

\* The contact force on each body in the present state of the context: the
\* forces of the contacts the configured model takes into account.
ContactForce ==
    LET point == PenaltyLoop(point_pairs, 1, ZeroArray)
        hydro == HydroLoop(surfaces, 1, ZeroArray)
    IN IF num_collision_geometries = 0 THEN ZeroArray
       ELSE CASE contact_model = "kPoint" -> point
              [] contact_model = "kHydroelastic" -> hydro
              [] contact_model = "kHydroelasticWithFallback" ->
                   [b \in Bodies |-> SpatialPlus(point[b], hydro[b])]

\* C7: CalcAndAddSpatialContactForcesContinuous adds: after the call in
\* CalcReactionForces every body's entry is its entry before the call (the
\* non-contact forces) plus that body's contact force, whichever contact
\* model is configured.
C7_ContactForcesAreAdded ==
    (last.caller = "CalcReactionForces" /\ ~is_discrete) =>
        \A b \in Bodies :
            last.result[b] = SpatialPlus(last.prior[b], ContactForce[b])

\* ------------------------------------------------------------------------
\* The cache (DeclareCacheEntries and the evaluation of its slots).
\* ------------------------------------------------------------------------
Slots ==
    {"hydro_fallback", "point_pairs", "contact_surfaces",
     "contact_info_and_body_spatial_forces", "contact_results",
     "spatial_contact_forces_continuous",
     "generalized_contact_forces_continuous", "joint_locking_data"}

use_hydroelastic ==
    contact_model \in {"kHydroelastic", "kHydroelasticWithFallback"}

\* The cache entries DeclareCacheEntries declares.
DeclaredSlots ==
    IF use_hydroelastic THEN Slots
    ELSE Slots \ {"contact_info_and_body_spatial_forces"}

\* The dependency tickets each cache entry is declared with.
Prerequisites(slot) ==
    CASE slot = "hydro_fallback" -> {"configuration"}
      [] slot = "point_pairs" -> {"configuration"}
      [] slot = "contact_surfaces" -> {"configuration"}
      [] slot = "contact_info_and_body_spatial_forces" ->
            {"kinematics", "all_parameters"}
      [] slot = "contact_results" ->
            IF is_discrete THEN {"xd", "all_parameters"}
            ELSE {"kinematics", "all_parameters"} \cup
                 (IF use_hydroelastic
                    THEN {"contact_info_and_body_spatial_forces"} ELSE {})
      [] slot = "spatial_contact_forces_continuous" ->
            {"kinematics", "all_parameters"}
      [] slot = "generalized_contact_forces_continuous" ->
            {"spatial_contact_forces_continuous", "all_parameters"}
      [] slot = "joint_locking_data" -> {"all_parameters"}

\* The slots the point pairs and the contact surfaces are read from.
PointPairSlots ==
    IF contact_model = "kHydroelasticWithFallback"
      THEN {"hydro_fallback"} ELSE {"point_pairs"}

SurfaceSlots ==
    IF contact_model = "kHydroelasticWithFallback"
      THEN {"hydro_fallback"} ELSE {"contact_surfaces"}

\* The cache entries the calculator of a cache entry evaluates.
Reads(slot) ==
    CASE slot = "contact_info_and_body_spatial_forces" ->
            IF num_collision_geometries = 0 THEN {} ELSE SurfaceSlots
      [] slot = "contact_results" ->
            IF is_discrete \/ num_collision_geometries = 0 THEN {}
            ELSE (IF contact_model # "kHydroelastic"
                    THEN PointPairSlots ELSE {}) \cup
                 (IF use_hydroelastic
                    THEN {"contact_info_and_body_spatial_forces"} ELSE {})
      [] slot = "spatial_contact_forces_continuous" ->
            IF num_collision_geometries = 0 THEN {}
            ELSE (IF contact_model # "kHydroelastic"
                    THEN {"contact_results"} ELSE {}) \cup
                 (IF use_hydroelastic
                    THEN {"contact_info_and_body_spatial_forces"} ELSE {})
      [] slot = "generalized_contact_forces_continuous" ->
            IF num_collision_geometries = 0 THEN {}
            ELSE {"spatial_contact_forces_continuous"}
      [] OTHER -> {}

\* The slots a caller evaluates: the two continuous ones demand a
\* continuous plant.
Evaluable ==
    IF is_discrete
      THEN DeclaredSlots \ {"spatial_contact_forces_continuous",
                            "generalized_contact_forces_continuous"}
      ELSE DeclaredSlots

\* The sources whose values a context lets change, and the built-in
\* tickets downstream of them.
Sources == IF is_discrete THEN {"xd", "all_parameters"}
           ELSE {"q", "v", "all_parameters"}

Tickets ==
    {"q", "v", "xd", "all_parameters", "configuration", "kinematics"}
        \cup DeclaredSlots

TicketPrerequisites(t) ==
    CASE t = "configuration" -> {"q", "xd", "all_parameters"}
      [] t = "kinematics" -> {"configuration", "v"}
      [] t \in DeclaredSlots -> Prerequisites(t)
      [] OTHER -> {}

\* The number of changes of the sources so far.
NumChanges ==
    ticket_version["q"] + ticket_version["v"] + ticket_version["xd"]
        + ticket_version["all_parameters"]

RECURSIVE Downstream(_, _)
Downstream(t, source) ==
    \/ source \in TicketPrerequisites(t)
    \/ \E u \in TicketPrerequisites(t) : Downstream(u, source)

\* A change of a source is a new version of it and of every ticket
\* downstream of it.
NoteValueChange(source) ==
    /\ source \in Sources
    /\ NumChanges < MaxVersion
    /\ ticket_version' =
          [t \in Tickets |->
              IF t = source \/ Downstream(t, source)
                THEN ticket_version[t] + 1 ELSE ticket_version[t]]
    /\ last_eval' = [slot |-> "none", ran |-> {}, value |-> <<>>]
    /\ UNCHANGED <<cache, evals, computed>>

CurrentVersions(slot) == [t \in Prerequisites(slot) |-> ticket_version[t]]

\* What a calculator computes is a function of the present values of the
\* sources: here, their versions.
Compute(slot) == <<slot, [t \in Sources |-> ticket_version[t]]>>

\* An engine that recomputes a slot only the first time.
IsUpToDate_OnceAndForAll(c, slot) == c[slot].stored # <<>>

\* A slot is up to date when the versions stored with it are the current
\* versions of its prerequisites.
IsUpToDate(c, slot) == c[slot].stored = CurrentVersions(slot)

\* Eval of one slot on the cache c with the set ran of slots computed so
\* far: if the slot is out of date its calculator runs, evaluating the
\* slots it reads first, and value and versions are stored.
RECURSIVE EvalSlot(_, _)
RECURSIVE EvalAll(_, _)
EvalAll(st, slots) ==
    IF slots = {} THEN st
    ELSE LET slot == CHOOSE x \in slots : TRUE
         IN EvalAll(EvalSlot(st, slot), slots \ {slot})

EvalSlot(st, slot) ==
    IF IsUpToDate(st.cache, slot) THEN st
    ELSE LET read == EvalAll(st, Reads(slot))
         IN [cache |-> [read.cache EXCEPT ![slot] =
                           [stored |-> CurrentVersions(slot),
                            value |-> Compute(slot)]],
             ran |-> read.ran \cup {slot}]

Eval(slot) ==
    /\ slot \in Evaluable
    /\ evals < MaxEvals
    /\ evals' = evals + 1
    /\ LET st == EvalSlot([cache |-> cache, ran |-> {}], slot)
       IN /\ cache' = st.cache
          /\ last_eval' = [slot |-> slot, ran |-> st.ran,
                           value |-> st.cache[slot].value]
          /\ computed' = computed \cup
                            {<<t, st.cache[t].stored>> : t \in st.ran}
    /\ UNCHANGED ticket_version

InitCache ==
    /\ is_discrete \in BOOLEAN
    /\ contact_model \in ContactModels
    /\ num_collision_geometries \in 0 .. 1
    /\ point_pairs = <<>>
    /\ surfaces = <<>>
    /\ contact_cache = <<>>
    /\ last = [caller |-> "none", prior |-> <<>>, result |-> <<>>]
    /\ ticket_version = [t \in Tickets |-> 0]
    /\ cache = [slot \in DeclaredSlots |-> [stored |-> <<>>, value |-> <<>>]]
    /\ last_eval = [slot |-> "none", ran |-> {}, value |-> <<>>]
    /\ evals = 0
    /\ computed = {}
    /\ ForcesAtRest
    /\ StepAtRest
    /\ SizeAtRest
    /\ LimitAtRest
    /\ PlantAtRest
    /\ QueryAtRest
    /\ PairAtRest
    /\ SurfaceAtRest
    /\ ScalarAtRest
    /\ RegistryAtRest
    /\ StribeckAtRest
    /\ ReactionAtRest
    /\ PenaltyAtRest
    /\ PlaneAtRest
    /\ GuardAtRest
    /\ DiscreteAtRest
    /\ ActuationAtRest
    /\ LifecycleAtRest

NextCache ==
    \/ \E slot \in Slots : Eval(slot) /\ UNCHANGED otherThanCache
    \/ \E source \in Tickets : NoteValueChange(source)
                                   /\ UNCHANGED otherThanCache

SpecCache == InitCache /\ [][NextCache]_vars

\* The slots a slot depends on: those its calculator reads and those among
\* its declared prerequisites, and the ones these depend on.
RECURSIVE DependsOn(_, _)
DependsOn(slot, other) ==
    LET direct == Reads(slot) \cup (Prerequisites(slot) \cap DeclaredSlots)
    IN \/ other \in direct
       \/ \E u \in direct : DependsOn(u, other)

\* C3: an Eval runs the slot's calculator exactly when the versions stored
\* with the slot differ from the current versions of its declared
\* prerequisites; no calculator runs for a combination of versions it has
\* already run for; an Eval that does not recompute returns the stored
\* value; and an Eval leaves alone the value and the versions of every slot
\* the evaluated slot does not depend on.
C3_EvalRecomputesIffOutOfDate ==
    [][evals' # evals =>
         LET slot == last_eval'.slot
         IN /\ (slot \in last_eval'.ran) <=>
                   (cache[slot].stored # CurrentVersions(slot))
            /\ \A t \in last_eval'.ran :
                   <<t, cache'[t].stored>> \notin computed
            /\ slot \notin last_eval'.ran =>
                   /\ last_eval'.value = cache[slot].value
                   /\ cache' = cache
            /\ \A t \in DeclaredSlots :
                   (t # slot /\ ~DependsOn(slot, t)) => cache'[t] = cache[t]
            /\ cache'[slot].stored = CurrentVersions(slot)]_vars

\* A slot was evaluated a second time after a source changed: its calculator
\* and the one of the slot it reads ran again, and a slot it does not
\* depend on holds the value it had.
C3_Witness ==
    /\ last_eval.slot = "generalized_contact_forces_continuous"
    /\ "spatial_contact_forces_continuous" \in last_eval.ran
    /\ NumChanges > 0
    /\ cache["joint_locking_data"].stored # <<>>

\* ------------------------------------------------------------------------
\* The size check of the force accumulator at the entry points.
\* ------------------------------------------------------------------------
\* The accumulators a caller can build: any number of body entries and of
\* generalized forces, holding what an earlier use left in them.
Accumulators ==
    {[body |-> [b \in 0 .. (nb - 1) |-> [tau |-> 0, f |-> 5]],
      gen  |-> [k \in 1 .. ng |-> 5]] :
        nb \in 0 .. (num_bodies + 1), ng \in 0 .. (num_velocities + 1)}

CheckHasRightSizeForModel(forces) ==
    /\ DOMAIN forces.body = Bodies
    /\ Len(forces.gen) = num_velocities

\* CalcForceElementsContribution seen from its caller: [status, forces].
CallCalcForceElementsContribution(forces) ==
    IF ~CheckHasRightSizeForModel(forces)
      THEN [status |-> "threw", forces |-> forces]
      ELSE [status |-> "ok", forces |-> CalcForceElementsContribution(forces)]

\* CalcNonContactForces seen from its caller, no input port connected and
\* the joint within its limits.
CallCalcNonContactForces(forces) ==
    IF ~CheckHasRightSizeForModel(forces)
      THEN [status |-> "aborted", forces |-> forces]
      ELSE [status |-> "ok", forces |-> CalcForceElementsContribution(forces)]

CallCalcAndAddContactForcesByPenaltyMethod(forces) ==
    IF DOMAIN forces.body # Bodies
      THEN [status |-> "aborted", forces |-> forces]
      ELSE [status |-> "ok",
            forces |-> [forces EXCEPT !.body =
                           CalcAndAddContactForcesByPenaltyMethod(@)]]

CallCalcAndAddSpatialContactForcesContinuous(forces) ==
    IF DOMAIN forces.body # Bodies
      THEN [status |-> "aborted", forces |-> forces]
      ELSE [status |-> "ok",
            forces |-> [forces EXCEPT !.body =
                           CalcAndAddSpatialContactForcesContinuous(@)]]

\* AddInForcesContinuous on the accumulator it is given, with the applied
\* generalized force `port`, no applied spatial force and no actuator.  It
\* does not look at the sizes: the generalized forces are added (outside
\* the common length the sum of two vectors of different sizes is
\* undefined: the build either stops on Eigen's assertion or adds over the
\* common length), and every body entry the accumulator has gets the cached
\* contact force of that index (`garbage` where the cached array has none).
CallAddInForcesContinuous(forces, port, assertions, garbage) ==
    LET Fcontact_BBo_W_array ==
            CalcAndAddSpatialContactForcesContinuous(ZeroArray)
        mismatch == port.has /\ Len(forces.gen) # num_velocities
    IN IF port.has /\ hasNaN(port.val)
         THEN [status |-> "threw", forces |-> forces]
       ELSE IF mismatch /\ assertions
         THEN [status |-> "aborted", forces |-> forces]
       ELSE [status |-> "ok",
             forces |->
               [body |-> [i \in DOMAIN forces.body |->
                    SpatialPlus(forces.body[i],
                        IF i \in Bodies THEN Fcontact_BBo_W_array[i]
                        ELSE [tau |-> garbage, f |-> garbage])],
                gen |-> [k \in 1 .. Len(forces.gen) |->
                    IF port.has /\ k <= num_velocities
                      THEN Plus(forces.gen[k], port.val[k])
                      ELSE forces.gen[k]]]]

Called(entry, before, r) ==
    /\ forces_arg' = r.forces
    /\ call' = [entry |-> entry, status |-> r.status, before |-> before]

EntryCalcForceElementsContribution ==
    \E forces \in Accumulators :
        Called("CalcForceElementsContribution", forces,
               CallCalcForceElementsContribution(forces))

EntryCalcNonContactForces ==
    \E forces \in Accumulators :
        Called("CalcNonContactForces", forces,
               CallCalcNonContactForces(forces))

EntryCalcAndAddContactForcesByPenaltyMethod ==
    \E forces \in Accumulators :
        Called("CalcAndAddContactForcesByPenaltyMethod", forces,
               CallCalcAndAddContactForcesByPenaltyMethod(forces))

EntryCalcAndAddSpatialContactForcesContinuous ==
    /\ ~is_discrete
    /\ \E forces \in Accumulators :
          Called("CalcAndAddSpatialContactForcesContinuous", forces,
                 CallCalcAndAddSpatialContactForcesContinuous(forces))

EntryAddInForcesContinuous ==
    /\ ~is_discrete
    /\ \E forces \in Accumulators, port \in PortValues(num_velocities, 2),
          assertions \in BOOLEAN, garbage \in {0, 7} :
          Called("AddInForcesContinuous", forces,
                 CallAddInForcesContinuous(forces, port, assertions, garbage))

InitSizes ==
    /\ is_discrete \in BOOLEAN
    /\ contact_model \in ContactModels
    /\ num_collision_geometries = 1
    /\ point_pairs \in SeqsUpTo(PointPairContacts, MaxContacts)
    /\ surfaces \in SeqsUpTo(ContactSurfaces, MaxContacts)
    /\ contact_cache = <<>>
    /\ last = [caller |-> "none", prior |-> <<>>, result |-> <<>>]
    /\ forces_arg = [body |-> <<>>, gen |-> <<>>]
    /\ call = [entry |-> "none", status |-> "none", before |-> <<>>]
    /\ ForcesAtRest
    /\ StepAtRest
    /\ CacheAtRest
    /\ LimitAtRest
    /\ PlantAtRest
    /\ QueryAtRest
    /\ PairAtRest
    /\ SurfaceAtRest
    /\ ScalarAtRest
    /\ RegistryAtRest
    /\ StribeckAtRest
    /\ ReactionAtRest
    /\ PenaltyAtRest
    /\ PlaneAtRest
    /\ GuardAtRest
    /\ DiscreteAtRest
    /\ ActuationAtRest
    /\ LifecycleAtRest

NextSizes ==
    \/ EntryCalcForceElementsContribution /\ UNCHANGED otherThanSize
    \/ EntryCalcNonContactForces /\ UNCHANGED otherThanSize
    \/ EntryCalcAndAddContactForcesByPenaltyMethod /\ UNCHANGED otherThanSize
    \/ EntryCalcAndAddSpatialContactForcesContinuous
          /\ UNCHANGED otherThanSize
    \/ EntryAddInForcesContinuous /\ UNCHANGED otherThanSize

SpecSizes == InitSizes /\ [][NextSizes]_vars

\* The accumulator has the sizes the entry point needs: the contact-force
\* adders take the per-body array alone.
RightSizeFor(entry, forces) ==
    IF entry \in {"CalcAndAddContactForcesByPenaltyMethod",
                  "CalcAndAddSpatialContactForcesContinuous"}
      THEN DOMAIN forces.body = Bodies
      ELSE CheckHasRightSizeForModel(forces)

\* C11: every entry point that accumulates forces rejects, without writing
\* into it, an accumulator whose per-body array length differs from the
\* body count or whose generalized-force length differs from the velocity
\* count.
C11_WrongSizeIsRejected ==
    (call.entry # "none" /\ ~RightSizeFor(call.entry, call.before)) =>
        /\ call.status \in {"threw", "aborted"}
        /\ forces_arg = call.before

\* ------------------------------------------------------------------------
\* The joint limit penalty as a function of the joint.
\* ------------------------------------------------------------------------
\* Joints with lower_limit <= upper_limit, stiffness >= 0 and damping >= 0,
\* as SetUpJointLimitsParameters stores them, at any position and velocity.
JointLimitInputs ==
    {j \in [lower_limit : -1 .. 1, upper_limit : -1 .. 1,
            stiffness : 0 .. MaxGain, damping : 0 .. MaxGain,
            q : -MaxState .. MaxState, v : -MaxState .. MaxState] :
        j.lower_limit <= j.upper_limit}

CalcJointPenaltyForce ==
    /\ ~limit_out.done
    /\ limit_out' =
          [done |-> TRUE,
           force |-> CalcPenaltyForce(limit_in.lower_limit,
                         limit_in.upper_limit, limit_in.stiffness,
                         limit_in.damping, limit_in.q, limit_in.v)]
    /\ UNCHANGED limit_in

InitLimit ==
    /\ limit_in \in JointLimitInputs
    /\ limit_out = [done |-> FALSE, force |-> 0]
    /\ is_discrete = TRUE
    /\ ForcesAtRest
    /\ StepAtRest
    /\ ContactAtRest
    /\ CacheAtRest
    /\ SizeAtRest
    /\ PlantAtRest
    /\ QueryAtRest
    /\ PairAtRest
    /\ SurfaceAtRest
    /\ ScalarAtRest
    /\ RegistryAtRest
    /\ StribeckAtRest
    /\ ReactionAtRest
    /\ PenaltyAtRest
    /\ PlaneAtRest
    /\ GuardAtRest
    /\ DiscreteAtRest
    /\ ActuationAtRest
    /\ LifecycleAtRest

NextLimit ==
    \/ CalcJointPenaltyForce /\ UNCHANGED otherThanLimit

SpecLimit == InitLimit /\ [][NextLimit]_vars

\* C12: the penalty is 0 for lower <= q <= upper (the limits included, any
\* v), min(-k (q - upper) - d v, 0) above the upper limit and
\* max(-k (q - lower) - d v, 0) below the lower limit: never positive above,
\* never negative below.
C12_JointLimitPenalty ==
    limit_out.done =>
        LET j == limit_in
            force == limit_out.force
            above == -j.stiffness * (j.q - j.upper_limit) - j.damping * j.v
            below == -j.stiffness * (j.q - j.lower_limit) - j.damping * j.v
        IN /\ (j.lower_limit <= j.q /\ j.q <= j.upper_limit) => force = 0
           /\ j.q > j.upper_limit =>
                 /\ force <= above /\ force <= 0
                 /\ force \in {above, 0}
           /\ j.q < j.lower_limit =>
                 /\ force >= below /\ force >= 0
                 /\ force \in {below, 0}

\* Above the upper limit and moving back fast enough for the damping to
\* outweigh the stiffness: the clamp makes the force 0.
C12_Witness ==
    /\ limit_out.done /\ limit_out.force = 0
    /\ limit_in.q > limit_in.upper_limit
    /\ limit_in.stiffness > 0
    /\ -limit_in.stiffness * (limit_in.q - limit_in.upper_limit)
           - limit_in.damping * limit_in.v > 0

\* The evaluation on context c returns from the joint limits stage.
Returns(c) == Running(c, "limits") /\ stack'[c] # stack[c]

\* C13 as stated: on a continuous plant with joint limits the warning is
\* logged on the first evaluation, so that once an evaluation has ended no
\* warning is pending.
C13_LoggedOnFirstEvaluation ==
    \A c \in Contexts :
        (~is_discrete /\ stack[c] # <<>>
            /\ stack[c][1].pc \in {"returned", "threw"}) => ~pending_warning

\* C13, amended: on a continuous plant with joint limits an evaluation adds
\* no joint limit penalty, and the warning is logged (and cleared) exactly
\* once, by the first evaluation that gets past the input ports to the
\* joint limits stage, and by nothing else; on a discrete plant no warning
\* is ever pending or logged and every evaluation that gets there adds the
\* penalty of the joint's present q and v.
C13_WarningOnceNoContinuousLimits ==
    /\ [](is_discrete => ~pending_warning)
    /\ [][\A c \in Contexts :
            /\ pending_warning' # pending_warning =>
                  /\ pending_warning /\ ~pending_warning'
                  /\ \E d \in Contexts : Returns(d)
            /\ Returns(c) =>
                  /\ ~pending_warning'
                  /\ Len(stack[c]) = 1 /\ stack'[c][1].pc = "returned"
                  /\ IF is_discrete
                       THEN \E q \in -1 .. 2, v \in -1 .. 1 :
                               stack'[c][1].forces =
                                   AddJointLimitsPenaltyForces(
                                       q, v, Top(c).forces)
                       ELSE stack'[c][1].forces = Top(c).forces]_vars

\* A continuous evaluation has returned after an earlier one failed on its
\* inputs with the warning still pending: the warning is logged by now.
C13_Witness ==
    \E c \in Contexts :
        /\ ~is_discrete /\ ~pending_warning
        /\ stack[c] # <<>> /\ stack[c][1].pc = "returned"
        /\ prior_loop[c]

\* ------------------------------------------------------------------------
\* Several contexts of one plant, evaluated in any interleaving.
\* ------------------------------------------------------------------------
InitShared ==
    /\ is_discrete \in BOOLEAN
    /\ actuators = <<>>
    /\ stack = [c \in 1 .. NumContexts |-> <<>>]
    /\ in_progress = [c \in 1 .. NumContexts |-> FALSE]
    /\ exc = [c \in 1 .. NumContexts |-> NoError]
    /\ pending_warning = ~is_discrete
    /\ prior_loop = [c \in 1 .. NumContexts |-> FALSE]
    /\ StepAtRest
    /\ ContactAtRest
    /\ CacheAtRest
    /\ SizeAtRest
    /\ LimitAtRest
    /\ PlantAtRest
    /\ QueryAtRest
    /\ PairAtRest
    /\ SurfaceAtRest
    /\ ScalarAtRest
    /\ RegistryAtRest
    /\ StribeckAtRest
    /\ ReactionAtRest
    /\ PenaltyAtRest
    /\ PlaneAtRest
    /\ GuardAtRest
    /\ DiscreteAtRest
    /\ ActuationAtRest
    /\ LifecycleAtRest

\* The generalized-force input port of a plant wired to nothing or to a
\* source of NaN.
ReadGeneralizedPort(c) ==
    /\ Running(c, "generalized")
    /\ \E port \in PortValues(num_velocities, NaN) :
          Contribute(c, AddAppliedExternalGeneralizedForces(port, Top(c).forces),
                     port, "spatial")
    /\ UNCHANGED <<is_discrete, actuators, in_progress, pending_warning, prior_loop>>

\* The spatial-force input port left unconnected.
ReadSpatialPort(c) ==
    /\ Running(c, "spatial")
    /\ LET port == [has |-> FALSE, val |-> <<>>]
       IN Contribute(c, AddAppliedExternalSpatialForces(port, Top(c).forces),
                     port, "actuation")
    /\ UNCHANGED <<is_discrete, actuators, in_progress, pending_warning, prior_loop>>

\* The actuation input ports left unconnected.
ReadActuationPorts(c) ==
    /\ Running(c, "actuation")
    /\ \E read \in {r \in ActuationReads :
                      ~r.all.has /\ \A i \in ModelInstances : ~r.inst[i].has} :
          Contribute(c, AddJointActuationForces(read, Top(c).forces),
                     read, "limits")
    /\ UNCHANGED <<is_discrete, actuators, in_progress, pending_warning, prior_loop>>

NextShared ==
    \/ \E c \in Contexts : CalcNonContactForces(c) /\ UNCHANGED otherThanForces
    \/ \E c \in Contexts : FeedbackReentry(c) /\ UNCHANGED otherThanForces
    \/ \E c \in Contexts : ReadGeneralizedPort(c) /\ UNCHANGED otherThanForces
    \/ \E c \in Contexts : ReadSpatialPort(c) /\ UNCHANGED otherThanForces
    \/ \E c \in Contexts : ReadActuationPorts(c) /\ UNCHANGED otherThanForces
    \/ \E c \in Contexts : ReturnNonContactForces(c) /\ UNCHANGED otherThanForces
    \/ \E c \in Contexts : Unwind(c) /\ UNCHANGED otherThanForces

SpecShared == InitShared /\ [][NextShared]_vars

\* C14: evaluations interleaved on independent contexts write only the
\* evaluating context's own data: the plant's data stay as Finalize left
\* them, and the algebraic-loop error is raised on a context only by an
\* evaluation in progress on that same context.
C14_EvaluationWritesNoPlantData ==
    /\ pending_warning = ~is_discrete
    /\ \A c \in Contexts :
          exc[c].kind = "algebraic_loop" => in_progress[c]

\* ------------------------------------------------------------------------
\* The plant's life: registration with a scene graph, geometry, Finalize,
\* and the operations that remain available afterwards.
\* ------------------------------------------------------------------------
kDefaultStrength == 1

kAlpha == 63

Sqrt(n) == CHOOSE r \in 0 .. n : r * r = n

\* The allowances a caller may pass: not positive, or a perfect square.
Allowances == {-1, 0} \cup {r * r : r \in 1 .. MaxAllowanceRoot}

\* What a dereference of the pointer p touches.
Deref(p) == IF p = nullptr THEN "nullptr" ELSE "scene_graph"

\* Stiffness and dissipation are fractions <<numerator, denominator>>; the
\* heaviest body weighs num_bodies.
EstimatePointContactParameters(penetration_allowance) ==
    LET g == kDefaultStrength
        mass == num_bodies
        time_scale == Sqrt(penetration_allowance \div g)
    IN [geometry_stiffness |-> <<2 * mass * g, penetration_allowance>>,
        dissipation |-> <<time_scale, penetration_allowance>>,
        time_scale |-> time_scale]

\* Per joint with limits, the penalty time scale its stiffness and damping
\* are computed from.
SetUpJointLimitsParameters ==
    [j \in 1 .. joints_ |-> kAlpha * time_step]

PlantOp(op, threw, deref) ==
    plant_last' = [op |-> op, threw |-> threw, deref |-> deref]

RegisterAsSourceForSceneGraph ==
    \E scene_graph \in {nullptr, "scene_graph"} :
       IF scene_graph = nullptr \/ source_id_
         THEN /\ PlantOp("RegisterAsSourceForSceneGraph", TRUE, "none")
              /\ UNCHANGED <<finalized, scene_graph_, source_id_,
                             num_collision_geometries_, joints_,
                             penetration_allowance_,
                             penalty_method_contact_parameters_,
                             joint_limits_parameters_>>
         ELSE /\ scene_graph_' = scene_graph
              /\ source_id_' = TRUE
              /\ PlantOp("RegisterAsSourceForSceneGraph", FALSE,
                         Deref(scene_graph))
              /\ UNCHANGED <<finalized, num_collision_geometries_, joints_,
                             penetration_allowance_,
                             penalty_method_contact_parameters_,
                             joint_limits_parameters_>>

RegisterCollisionGeometry ==
    /\ num_collision_geometries_ < MaxGeometries
    /\ IF finalized \/ ~source_id_
         THEN /\ PlantOp("RegisterCollisionGeometry", TRUE, "none")
              /\ UNCHANGED num_collision_geometries_
         ELSE /\ PlantOp("RegisterCollisionGeometry", FALSE,
                         Deref(scene_graph_))
              /\ num_collision_geometries_' = num_collision_geometries_ + 1
    /\ UNCHANGED <<finalized, scene_graph_, source_id_, joints_,
                   penetration_allowance_,
                   penalty_method_contact_parameters_,
                   joint_limits_parameters_>>

ExcludeCollisionGeometriesWithCollisionFilterGroupPair ==
    /\ IF finalized \/ ~source_id_
         THEN PlantOp("ExcludeCollisionGeometriesWithCollisionFilterGroupPair",
                      TRUE, "none")
         ELSE PlantOp("ExcludeCollisionGeometriesWithCollisionFilterGroupPair",
                      FALSE, Deref(scene_graph_))
    /\ UNCHANGED <<finalized, scene_graph_, source_id_,
                   num_collision_geometries_, joints_, penetration_allowance_,
                   penalty_method_contact_parameters_,
                   joint_limits_parameters_>>

\* Finalize on a plant not yet finalized: the default collision filters,
\* then FinalizePlantOnly.
Finalize ==
    /\ ~finalized
    /\ finalized' = TRUE
    /\ PlantOp("Finalize", FALSE,
               IF source_id_ THEN Deref(scene_graph_) ELSE "none")
    /\ penalty_method_contact_parameters_' =
          IF /\ num_collision_geometries_ > 0
             /\ penalty_method_contact_parameters_.time_scale < 0
            THEN EstimatePointContactParameters(penetration_allowance_)
            ELSE penalty_method_contact_parameters_
    /\ joint_limits_parameters_' = SetUpJointLimitsParameters
    /\ scene_graph_' = nullptr
    /\ UNCHANGED <<source_id_, num_collision_geometries_, joints_,
                   penetration_allowance_>>

\* The setter that estimates from the allowance the plant held before.
set_penetration_allowance_StaleAllowance(penetration_allowance) ==
    IF penetration_allowance <= 0
      THEN /\ PlantOp("set_penetration_allowance", TRUE, "none")
           /\ UNCHANGED <<finalized, scene_graph_, source_id_,
                          num_collision_geometries_, joints_,
                          penetration_allowance_,
                          penalty_method_contact_parameters_,
                          joint_limits_parameters_>>
      ELSE /\ PlantOp("set_penetration_allowance", FALSE, "none")
           /\ penetration_allowance_' = penetration_allowance
           /\ penalty_method_contact_parameters_' =
                 IF finalized
                   THEN EstimatePointContactParameters(penetration_allowance_)
                   ELSE penalty_method_contact_parameters_
           /\ UNCHANGED <<finalized, scene_graph_, source_id_,
                          num_collision_geometries_, joints_,
                          joint_limits_parameters_>>

set_penetration_allowance(penetration_allowance) ==
    IF penetration_allowance <= 0
      THEN /\ PlantOp("set_penetration_allowance", TRUE, "none")
           /\ UNCHANGED <<finalized, scene_graph_, source_id_,
                          num_collision_geometries_, joints_,
                          penetration_allowance_,
                          penalty_method_contact_parameters_,
                          joint_limits_parameters_>>
      ELSE /\ PlantOp("set_penetration_allowance", FALSE, "none")
           /\ penetration_allowance_' = penetration_allowance
           /\ penalty_method_contact_parameters_' =
                 IF finalized
                   THEN EstimatePointContactParameters(penetration_allowance)
                   ELSE penalty_method_contact_parameters_
           /\ UNCHANGED <<finalized, scene_graph_, source_id_,
                          num_collision_geometries_, joints_,
                          joint_limits_parameters_>>

InitPlant ==
    /\ is_discrete \in BOOLEAN
    /\ ForcesAtRest
    /\ StepAtRest
    /\ ContactAtRest
    /\ CacheAtRest
    /\ SizeAtRest
    /\ LimitAtRest
    /\ QueryAtRest
    /\ PairAtRest
    /\ SurfaceAtRest
    /\ ScalarAtRest
    /\ RegistryAtRest
    /\ StribeckAtRest
    /\ ReactionAtRest
    /\ PenaltyAtRest
    /\ PlaneAtRest
    /\ GuardAtRest
    /\ DiscreteAtRest
    /\ ActuationAtRest
    /\ LifecycleAtRest
    /\ finalized = FALSE
    /\ scene_graph_ = nullptr
    /\ source_id_ = FALSE
    /\ num_collision_geometries_ = 0
    /\ joints_ \in 0 .. MaxJoints
    /\ penetration_allowance_ = 1
    /\ penalty_method_contact_parameters_ =
          [geometry_stiffness |-> <<0, 1>>, dissipation |-> <<0, 1>>,
           time_scale |-> -1]
    /\ joint_limits_parameters_ = <<>>
    /\ plant_last = [op |-> "none", threw |-> FALSE, deref |-> "none"]

NextPlant ==
    \/ RegisterAsSourceForSceneGraph /\ UNCHANGED otherThanPlant
    \/ RegisterCollisionGeometry /\ UNCHANGED otherThanPlant
    \/ ExcludeCollisionGeometriesWithCollisionFilterGroupPair
          /\ UNCHANGED otherThanPlant
    \/ Finalize /\ UNCHANGED otherThanPlant
    \/ \E a \in Allowances :
          set_penetration_allowance(a) /\ UNCHANGED otherThanPlant

SpecPlant == InitPlant /\ [][NextPlant]_vars

\* C15: once Finalize has run, the plant's scene graph pointer is nullptr
\* and no operation performed after Finalize dereferences the pointer.
C15_NoHandleAfterFinalize ==
    finalized =>
       /\ scene_graph_ = nullptr
       /\ plant_last.op # "Finalize" => plant_last.deref = "none"

\* After Finalize no step changes the point-contact penalty parameters or
\* the joint-limit penalty parameters.
C16_ParametersFixedAfterFinalize ==
    [][finalized =>
         /\ penalty_method_contact_parameters_' =
               penalty_method_contact_parameters_
         /\ joint_limits_parameters_' = joint_limits_parameters_]_vars

\* C16: after Finalize the joint-limit penalty parameters never change, and
\* the point-contact penalty parameters change only in a call of
\* set_penetration_allowance that did not throw, which leaves the estimate
\* made from the allowance it was given.
C16_OnlyTheAllowanceSetterChangesParameters ==
    [][finalized =>
         /\ joint_limits_parameters_' = joint_limits_parameters_
         /\ penalty_method_contact_parameters_' #
               penalty_method_contact_parameters_
            => /\ plant_last'.op = "set_penetration_allowance"
               /\ ~plant_last'.threw
               /\ penalty_method_contact_parameters_' =
                     EstimatePointContactParameters(penetration_allowance_')]_vars

\* A finalized plant whose parameters a later set_penetration_allowance
\* re-estimated from an allowance other than the one Finalize used.
C16_Witness ==
    /\ finalized
    /\ num_collision_geometries_ > 0
    /\ plant_last.op = "set_penetration_allowance"
    /\ ~plant_last.threw
    /\ penetration_allowance_ # 1
    /\ penalty_method_contact_parameters_ =
          EstimatePointContactParameters(penetration_allowance_)

\* ------------------------------------------------------------------------
\* Evaluations that need the geometry query input port.
\* ------------------------------------------------------------------------
\* The validity test that ignores the number of collision geometries.
IsValidGeometryInput_IgnoresGeometryCount == query_connected

IsValidGeometryInput ==
    num_collision_geometries = 0 \/ query_connected

\* Whether the computation f, once entered, reads the geometry query input
\* port, directly or through what it calls.
RECURSIVE UsesGeometryQuery(_)
UsesGeometryQuery(f) ==
    CASE f = "CalcPointPairPenetrations" ->
           num_collision_geometries > 0
      [] f = "CalcContactSurfaces" -> TRUE
      [] f = "CalcHydroelasticWithFallback" ->
           num_collision_geometries > 0
      [] f = "AppendContactResultsContinuousPointPair" -> TRUE
      [] f = "CalcHydroelasticContactForces" ->
           num_collision_geometries # 0
      [] f = "AppendContactResultsContinuousHydroelastic" ->
           UsesGeometryQuery("CalcHydroelasticContactForces")
      [] f = "CalcContactResultsContinuous" ->
           /\ num_collision_geometries # 0
           /\ CASE contact_model = "kPoint" ->
                     UsesGeometryQuery("AppendContactResultsContinuousPointPair")
                [] contact_model = "kHydroelastic" ->
                     UsesGeometryQuery(
                         "AppendContactResultsContinuousHydroelastic")
                [] OTHER ->
                     \/ UsesGeometryQuery(
                            "AppendContactResultsContinuousPointPair")
                     \/ UsesGeometryQuery(
                            "AppendContactResultsContinuousHydroelastic")
      [] f = "CalcAndAddContactForcesByPenaltyMethod" ->
           /\ num_collision_geometries # 0
           /\ UsesGeometryQuery("CalcContactResultsContinuous")
      [] f = "CalcAndAddSpatialContactForcesContinuous" ->
           CASE contact_model = "kPoint" ->
                  UsesGeometryQuery("CalcAndAddContactForcesByPenaltyMethod")
             [] contact_model = "kHydroelastic" ->
                  UsesGeometryQuery("CalcHydroelasticContactForces")
             [] OTHER ->
                  \/ UsesGeometryQuery("CalcAndAddContactForcesByPenaltyMethod")
                  \/ UsesGeometryQuery("CalcHydroelasticContactForces")
      [] f = "CalcGeneralizedContactForcesContinuous" ->
           /\ num_collision_geometries # 0
           /\ UsesGeometryQuery("CalcAndAddSpatialContactForcesContinuous")
      [] OTHER -> FALSE

\* The discrete update manager asks for contact only when the plant has
\* collision geometry.
ManagerUsesGeometryQuery == num_collision_geometries > 0

\* ValidateGeometryInput with the explanation given, then the computation,
\* which reads the port or not (deep); EvalGeometryQueryInput throws under
\* its caller's name when the port has no value.
Evaluate(evaluation, explanation, deep) ==
    /\ query_last' =
          [evaluation |-> evaluation,
           connected |-> query_connected,
           error |-> IF ~IsValidGeometryInput THEN explanation
                     ELSE IF deep /\ ~query_connected
                            THEN "EvalGeometryQueryInput"
                            ELSE "",
           touched |-> IsValidGeometryInput /\ deep]
    /\ UNCHANGED query_connected

CopyContactResultsOutput ==
    Evaluate("contact results", "output port contact_results",
             IF is_discrete THEN ManagerUsesGeometryQuery
             ELSE UsesGeometryQuery("CalcContactResultsContinuous"))

ReactionForcesOutput ==
    Evaluate("reaction forces", "output port reaction_forces",
             IF is_discrete
               THEN ManagerUsesGeometryQuery
               ELSE UsesGeometryQuery(
                        "CalcAndAddSpatialContactForcesContinuous"))

GeneralizedContactForcesOutput ==
    Evaluate("generalized contact forces",
             "output port generalized_contact_forces",
             IF is_discrete
               THEN ManagerUsesGeometryQuery
               ELSE UsesGeometryQuery(
                        "CalcGeneralizedContactForcesContinuous"))

TimeDerivatives ==
    /\ ~is_discrete
    /\ Evaluate("continuous forces", "time derivatives or their residuals",
                UsesGeometryQuery("CalcAndAddSpatialContactForcesContinuous"))

ForwardDynamicsDiscrete ==
    /\ is_discrete
    /\ manager
    /\ Evaluate("discrete forward dynamics", "discrete forward dynamics",
                ManagerUsesGeometryQuery)

\* The diagram connects or disconnects the port.
SetQueryConnection ==
    /\ query_connected' = ~query_connected
    /\ UNCHANGED query_last

InitQuery ==
    /\ is_discrete \in BOOLEAN
    /\ ForcesAtRest
    /\ StepAtRest
    /\ contact_model \in ContactModels
    /\ num_collision_geometries \in 0 .. MaxGeometries
    /\ point_pairs = <<>>
    /\ surfaces = <<>>
    /\ contact_cache = <<>>
    /\ last = [caller |-> "none", prior |-> <<>>, result |-> <<>>]
    /\ CacheAtRest
    /\ SizeAtRest
    /\ LimitAtRest
    /\ PlantAtRest
    /\ PairAtRest
    /\ SurfaceAtRest
    /\ ScalarAtRest
    /\ RegistryAtRest
    /\ StribeckAtRest
    /\ ReactionAtRest
    /\ PenaltyAtRest
    /\ PlaneAtRest
    /\ GuardAtRest
    /\ DiscreteAtRest
    /\ ActuationAtRest
    /\ LifecycleAtRest
    /\ query_connected \in BOOLEAN
    /\ query_last = [evaluation |-> "none", connected |-> FALSE,
                     error |-> "", touched |-> FALSE]

NextQuery ==
    \/ CopyContactResultsOutput /\ UNCHANGED otherThanQuery
    \/ ReactionForcesOutput /\ UNCHANGED otherThanQuery
    \/ GeneralizedContactForcesOutput /\ UNCHANGED otherThanQuery
    \/ TimeDerivatives /\ UNCHANGED otherThanQuery
    \/ ForwardDynamicsDiscrete /\ UNCHANGED otherThanQuery
    \/ SetQueryConnection /\ UNCHANGED otherThanQuery

SpecQuery == InitQuery /\ [][NextQuery]_vars

\* C17: an evaluation of contact results, reaction forces, generalized
\* contact forces, continuous forces or discrete forward dynamics that found
\* the geometry query input disconnected failed, with the error that names
\* its output port or computation, if the plant has a collision geometry,
\* and otherwise completed without reading the port.
C17_DisconnectedQueryFailsIffGeometry ==
    (query_last.evaluation # "none" /\ ~query_last.connected) =>
       IF num_collision_geometries > 0
         THEN /\ ~query_last.touched
              /\ query_last.error =
                    CASE query_last.evaluation = "contact results" ->
                           "output port contact_results"
                      [] query_last.evaluation = "reaction forces" ->
                           "output port reaction_forces"
                      [] query_last.evaluation = "generalized contact forces" ->
                           "output port generalized_contact_forces"
                      [] query_last.evaluation = "continuous forces" ->
                           "time derivatives or their residuals"
                      [] query_last.evaluation = "discrete forward dynamics" ->
                           "discrete forward dynamics"
         ELSE query_last.error = "" /\ ~query_last.touched

\* Reaction forces asked of a plant with collision geometry whose query
\* input is disconnected: the evaluation failed.
C17_Witness ==
    /\ query_last.evaluation = "reaction forces"
    /\ ~query_last.connected
    /\ num_collision_geometries > 0
    /\ query_last.error # ""

\* ------------------------------------------------------------------------
\* Point contact by the penalty method, one point pair at a time.  Vectors
\* are [n, t]: the component along the normal nhat_BA_W and the component
\* in the tangent plane.
\* ------------------------------------------------------------------------
\* A pair between geometries of bodies A < B with depth x, separation
\* velocity (vn, vt), combined stiffness k and dissipation d, and the
\* Stribeck coefficient mu the friction model gives at its slip speed.
PointPairInputs ==
    {[A |-> ab[1], B |-> ab[2], x |-> x, vn |-> vn, vt |-> vt,
      k |-> k, d |-> d, mu |-> mu] :
        ab \in BodyPairs, x \in 0 .. MaxPenetration,
        vn \in -MaxSpeed .. MaxSpeed, vt \in -1 .. 1,
        k \in 1 .. MaxGain, d \in 0 .. 1, mu \in 0 .. 1}

\* The loop body that records the contact whatever the sign of fn_AC.
AppendContactResultsContinuousPointPair_NoSignTest(pair) ==
    LET fn_AC == pair.k * pair.x * (1 + pair.d * pair.vn)
        vt_squared == pair.vt * pair.vt
        slip_velocity == IF vt_squared > 0 THEN Sqrt(vt_squared) ELSE 0
        ft_AC == IF vt_squared > 0
                   THEN (pair.mu * fn_AC) * (pair.vt \div slip_velocity)
                   ELSE 0
    IN <<[bodyA_index |-> pair.A, bodyB_index |-> pair.B,
          f_Bc_W |-> [n |-> -fn_AC, t |-> -ft_AC],
          vn |-> pair.vn, slip_velocity |-> slip_velocity]>>

\* The loop body of AppendContactResultsContinuousPointPair: the records
\* it adds for one pair.
AppendContactResultsContinuousPointPair(pair) ==
    LET fn_AC == pair.k * pair.x * (1 + pair.d * pair.vn)
        vt_squared == pair.vt * pair.vt
        slip_velocity == IF vt_squared > 0 THEN Sqrt(vt_squared) ELSE 0
        ft_AC == IF vt_squared > 0
                   THEN (pair.mu * fn_AC) * (pair.vt \div slip_velocity)
                   ELSE 0
    IN IF fn_AC > 0
         THEN <<[bodyA_index |-> pair.A, bodyB_index |-> pair.B,
                 f_Bc_W |-> [n |-> -fn_AC, t |-> -ft_AC],
                 vn |-> pair.vn, slip_velocity |-> slip_velocity]>>
         ELSE <<>>

\* CalcAndAddContactForcesByPenaltyMethod on the records of the contact
\* results: the force at the contact point on each body but the world.
RECURSIVE AddPointPairForces(_, _, _)
AddPointPairForces(records, pair_index, F) ==
    IF pair_index > Len(records) THEN F
    ELSE LET contact_info == records[pair_index]
             F_AC_W == [n |-> -contact_info.f_Bc_W.n,
                        t |-> -contact_info.f_Bc_W.t]
             F1 == IF contact_info.bodyA_index # world_index
                     THEN [F EXCEPT ![contact_info.bodyA_index] =
                              [n |-> @.n + F_AC_W.n, t |-> @.t + F_AC_W.t]]
                     ELSE F
             F2 == IF contact_info.bodyB_index # world_index
                     THEN [F1 EXCEPT ![contact_info.bodyB_index] =
                              [n |-> @.n - F_AC_W.n, t |-> @.t - F_AC_W.t]]
                     ELSE F1
         IN AddPointPairForces(records, pair_index + 1, F2)

CalcPointPairContact ==
    /\ ~pair_out.done
    /\ LET records == AppendContactResultsContinuousPointPair(pair_in)
       IN pair_out' =
            [done |-> TRUE, records |-> records,
             F |-> AddPointPairForces(records, 1,
                      [b \in Bodies |-> [n |-> 0, t |-> 0]])]
    /\ UNCHANGED pair_in

InitPair ==
    /\ pair_in \in PointPairInputs
    /\ pair_out = [done |-> FALSE, records |-> <<>>, F |-> <<>>]
    /\ is_discrete = FALSE
    /\ ForcesAtRest
    /\ StepAtRest
    /\ ContactAtRest
    /\ CacheAtRest
    /\ SizeAtRest
    /\ LimitAtRest
    /\ PlantAtRest
    /\ QueryAtRest
    /\ SurfaceAtRest
    /\ ScalarAtRest
    /\ RegistryAtRest
    /\ StribeckAtRest
    /\ ReactionAtRest
    /\ PenaltyAtRest
    /\ PlaneAtRest
    /\ GuardAtRest
    /\ DiscreteAtRest
    /\ ActuationAtRest
    /\ LifecycleAtRest

NextPair ==
    \/ CalcPointPairContact /\ UNCHANGED otherThanPair

SpecPair == InitPair /\ [][NextPair]_vars

\* C18: for a point pair of depth x >= 0 the normal force is
\* fn = k x (1 + d vn); the pair gives a contact record exactly when fn > 0,
\* and then body B receives fn against the normal and body A the opposite
\* (the world receives nothing); a pair with fn <= 0 gives no record and no
\* force on any body; with zero relative velocity the force has magnitude
\* k x along the normal and no tangential component.
C18_PointPairForce ==
    pair_out.done =>
       LET p == pair_in
           fn == p.k * p.x * (1 + p.d * p.vn)
       IN /\ (Len(pair_out.records) = 1) <=> (fn > 0)
          /\ Len(pair_out.records) <= 1
          /\ fn > 0 =>
               /\ pair_out.records[1].f_Bc_W.n = -fn
               /\ p.B # world_index => pair_out.F[p.B].n = -fn
               /\ p.A # world_index => pair_out.F[p.A].n = fn
          /\ fn <= 0 =>
               \A b \in Bodies : pair_out.F[b] = [n |-> 0, t |-> 0]
          /\ \A b \in Bodies \ {p.A, p.B} : pair_out.F[b] = [n |-> 0, t |-> 0]
          /\ pair_out.F[world_index] = [n |-> 0, t |-> 0]
          /\ (p.vn = 0 /\ p.vt = 0) =>
               /\ pair_out.F[p.B] =
                     IF p.B # world_index THEN [n |-> -(p.k * p.x), t |-> 0]
                     ELSE [n |-> 0, t |-> 0]
               /\ \A i \in DOMAIN pair_out.records :
                     pair_out.records[i].f_Bc_W = [n |-> -(p.k * p.x), t |-> 0]

\* A pair in penetration with zero relative velocity that produced its
\* record and the force k x on body B.
C18_Witness ==
    /\ pair_out.done
    /\ pair_in.x > 0
    /\ pair_in.vn = 0
    /\ pair_in.vt = 0
    /\ Len(pair_out.records) = 1
    /\ pair_out.F[pair_in.B].n = -(pair_in.k * pair_in.x)

\* C19: in the combined contact model of a continuous plant the contact
\* forces accumulated for a body are what was there before plus the body's
\* point contact force plus the body's hydroelastic force, and the contact
\* results are the records of the point pairs, in their order, followed by
\* the records of the contact surfaces, in their order.
C19_CombinedModeSumsAndConcatenates ==
    (contact_model = "kHydroelasticWithFallback" /\ ~is_discrete) =>
       /\ last.caller \in {"CalcSpatialContactForcesContinuous",
                           "CalcReactionForces", "AddInForcesContinuous"} =>
             \A b \in Bodies :
                last.result[b] =
                   SpatialPlus(last.prior[b],
                      SpatialPlus(PenaltyLoop(point_pairs, 1, ZeroArray)[b],
                                  HydroLoop(surfaces, 1, ZeroArray)[b]))
       /\ last.caller = "CalcContactResultsContinuous" =>
             /\ Len(last.result) = Len(point_pairs) + Len(surfaces)
             /\ \A i \in 1 .. Len(point_pairs) :
                   /\ last.result[i].kind = "point_pair"
                   /\ last.result[i].A = point_pairs[i].A
                   /\ last.result[i].B = point_pairs[i].B
             /\ \A i \in 1 .. Len(surfaces) :
                   LET r == last.result[Len(point_pairs) + i]
                   IN /\ r.kind = "hydroelastic"
                      /\ r.A = surfaces[i].A
                      /\ r.B = surfaces[i].B

\* The combined model with a point pair and a contact surface, whose
\* contact results hold both records.
C19_Witness ==
    /\ contact_model = "kHydroelasticWithFallback"
    /\ ~is_discrete
    /\ last.caller = "CalcContactResultsContinuous"
    /\ Len(point_pairs) = 1
    /\ Len(surfaces) = 1
    /\ Len(last.result) = 2

\* ------------------------------------------------------------------------
\* Hydroelastic contact: what the loop of CalcHydroelasticContactForces
\* reads for one contact surface.
\* ------------------------------------------------------------------------
GeometryIds == 1 .. MaxGeometries

\* A surface between two geometries, with the inspector's dynamic friction
\* of every geometry and the body every geometry is fixed to.
HydroelasticInputs ==
    {[id_M |-> mn[1], id_N |-> mn[2], friction |-> fr, body |-> bd] :
        mn \in {g \in GeometryIds \X GeometryIds : g[1] # g[2]},
        fr \in [GeometryIds -> 0 .. MaxGain],
        bd \in [GeometryIds -> Bodies]}

CalcHydroelasticContactForces ==
    /\ ~surface_out.done
    /\ LET geometryM_id == surface_in.id_M
           geometryN_id == surface_in.id_N
           propM == surface_in.friction[geometryM_id]
           propN == surface_in.friction[geometryM_id]
       IN surface_out' =
            [done |-> TRUE,
             geometryM_friction |-> propM,
             geometryN_friction |-> propN,
             bodyA_index |-> surface_in.body[geometryM_id],
             bodyB_index |-> surface_in.body[geometryN_id]]
    /\ UNCHANGED surface_in

InitSurface ==
    /\ surface_in \in HydroelasticInputs
    /\ surface_out = [done |-> FALSE, geometryM_friction |-> 0,
                      geometryN_friction |-> 0, bodyA_index |-> 0,
                      bodyB_index |-> 0]
    /\ is_discrete = FALSE
    /\ ForcesAtRest
    /\ StepAtRest
    /\ ContactAtRest
    /\ CacheAtRest
    /\ SizeAtRest
    /\ LimitAtRest
    /\ PlantAtRest
    /\ QueryAtRest
    /\ PairAtRest
    /\ ScalarAtRest
    /\ RegistryAtRest
    /\ StribeckAtRest
    /\ ReactionAtRest
    /\ PenaltyAtRest
    /\ PlaneAtRest
    /\ GuardAtRest
    /\ DiscreteAtRest
    /\ ActuationAtRest
    /\ LifecycleAtRest

NextSurface ==
    \/ CalcHydroelasticContactForces /\ UNCHANGED otherThanSurface

SpecSurface == InitSurface /\ [][NextSurface]_vars

\* C20: for a contact surface between geometries M and N the frictions
\* combined are M's own and N's own, and the bodies that receive the
\* resultant are the body of M and the body of N.
C20_FrictionOfBothGeometries ==
    surface_out.done =>
       /\ surface_out.geometryM_friction =
             surface_in.friction[surface_in.id_M]
       /\ surface_out.geometryN_friction =
             surface_in.friction[surface_in.id_N]
       /\ surface_out.bodyA_index = surface_in.body[surface_in.id_M]
       /\ surface_out.bodyB_index = surface_in.body[surface_in.id_N]

\* ------------------------------------------------------------------------
\* The hydroelastic computations per scalar type: the primary templates and
\* their specializations for symbolic::Expression.
\* ------------------------------------------------------------------------
ScalarTypes == {"double", "AutoDiffXd", "symbolic::Expression"}

\* The dispatch that has no specialization: every type runs the template.
HydroelasticComputation_NoSpecialization(computation, message, output, integrated) ==
    /\ hydro_output' = output
    /\ hydro_last' = [computation |-> computation, error |-> "",
                      integrated |-> integrated]
    /\ UNCHANGED scalar_type

\* A call of one of the computations: the symbolic specialization throws at
\* once; the primary template writes `output`, having integrated the traction
\* over `integrated` surfaces.
HydroelasticComputation(computation, message, output, integrated) ==
    /\ IF scalar_type = "symbolic::Expression"
         THEN /\ hydro_last' =
                    [computation |-> computation,
                     error |-> message,
                     integrated |-> 0]
              /\ UNCHANGED hydro_output
         ELSE /\ hydro_output' = output
              /\ hydro_last' = [computation |-> computation, error |-> "",
                                integrated |-> integrated]
    /\ UNCHANGED scalar_type

NotSupported == "This method doesn't support T = symbolic::Expression."

\* One record per contact surface.
SurfaceInfos ==
    [i \in DOMAIN surfaces |-> [A |-> surfaces[i].A, B |-> surfaces[i].B]]

CalcContactSurfaces ==
    HydroelasticComputation("CalcContactSurfaces", NotSupported,
        SurfaceInfos, 0)

CalcHydroelasticContactForces_T ==
    HydroelasticComputation("CalcHydroelasticContactForces", NotSupported,
        IF num_collision_geometries = 0 THEN hydro_output ELSE SurfaceInfos,
        IF num_collision_geometries = 0 THEN 0 ELSE Len(surfaces))

CalcHydroelasticWithFallback ==
    HydroelasticComputation("CalcHydroelasticWithFallback",
        "This method doesn't support T = drake::symbolic::Expression.",
        IF num_collision_geometries > 0 THEN SurfaceInfos ELSE hydro_output,
        0)

AppendContactResultsContinuousHydroelastic ==
    /\ Len(hydro_output) <= MaxContacts
    /\ HydroelasticComputation("AppendContactResultsContinuousHydroelastic",
          NotSupported,
          hydro_output \o SurfaceInfos, 0)

InitScalar ==
    /\ scalar_type \in ScalarTypes
    /\ hydro_output \in {<<>>, <<[A |-> 0, B |-> 0]>>}
    /\ hydro_last = [computation |-> "none", error |-> "", integrated |-> 0]
    /\ is_discrete = FALSE
    /\ ForcesAtRest
    /\ StepAtRest
    /\ contact_model \in {"kHydroelastic", "kHydroelasticWithFallback"}
    /\ num_collision_geometries \in 0 .. 1
    /\ point_pairs = <<>>
    /\ surfaces \in SeqsUpTo(ContactSurfaces, MaxContacts)
    /\ num_collision_geometries = 0 => surfaces = <<>>
    /\ contact_cache = <<>>
    /\ last = [caller |-> "none", prior |-> <<>>, result |-> <<>>]
    /\ CacheAtRest
    /\ SizeAtRest
    /\ LimitAtRest
    /\ PlantAtRest
    /\ QueryAtRest
    /\ PairAtRest
    /\ SurfaceAtRest
    /\ RegistryAtRest
    /\ StribeckAtRest
    /\ ReactionAtRest
    /\ PenaltyAtRest
    /\ PlaneAtRest
    /\ GuardAtRest
    /\ DiscreteAtRest
    /\ ActuationAtRest
    /\ LifecycleAtRest

NextScalar ==
    \/ CalcContactSurfaces /\ UNCHANGED otherThanScalar
    \/ CalcHydroelasticContactForces_T /\ UNCHANGED otherThanScalar
    \/ CalcHydroelasticWithFallback /\ UNCHANGED otherThanScalar
    \/ AppendContactResultsContinuousHydroelastic /\ UNCHANGED otherThanScalar

SpecScalar == InitScalar /\ [][NextScalar]_vars

\* C21: on the symbolic scalar type every hydroelastic computation (contact
\* surfaces, hydroelastic contact forces, hydroelastic with fallback,
\* appending the hydroelastic contact results) ends with the error that the
\* scalar type is not supported, integrates over no surface, and leaves the
\* caller's output as it was.
C21_SymbolicHydroelasticFails ==
    /\ [](scalar_type = "symbolic::Expression" /\ hydro_last.computation # "none"
            => /\ hydro_last.error \in
                     {"This method doesn't support T = symbolic::Expression.",
                      "This method doesn't support T = drake::symbolic::Expression."}
               /\ hydro_last.integrated = 0)
    /\ [][scalar_type = "symbolic::Expression"
            => hydro_output' = hydro_output]_vars

\* The hydroelastic contact forces asked of a symbolic plant that has a
\* contact surface and a caller's output with content: the call failed.
C21_Witness ==
    /\ scalar_type = "symbolic::Expression"
    /\ hydro_last.computation = "CalcHydroelasticContactForces"
    /\ hydro_last.error # ""
    /\ num_collision_geometries > 0
    /\ Len(surfaces) > 0
    /\ hydro_output # <<>>

\* ------------------------------------------------------------------------
\* Geometry registration on a plant that is a geometry source and is not
\* finalized.  The scene graph issues an identifier it has not issued
\* before; 0 stands for the identifier that is not valid.
\* ------------------------------------------------------------------------
\* RegisterGeometry: the identifier the scene graph returns is mapped to
\* the body.
RegisterGeometry(body, geometry_id) ==
    /\ geometry_id_to_body_index_' =
          [g \in DOMAIN geometry_id_to_body_index_ \cup {geometry_id} |->
              IF g = geometry_id THEN body ELSE geometry_id_to_body_index_[g]]
    /\ registered_on' =
          [g \in DOMAIN registered_on \cup {geometry_id} |->
              IF g = geometry_id THEN body ELSE registered_on[g]]
    /\ find_last' = [id |-> -1, ok |-> FALSE, body |-> 0]

RegisterVisualGeometry ==
    \E body \in Bodies, id \in GeometryIds \ DOMAIN registered_on :
       /\ RegisterGeometry(body, id)
       /\ visual_geometries_' =
             [visual_geometries_ EXCEPT ![body] = Append(@, id)]
       /\ UNCHANGED <<collision_geometries_, collision_count>>

\* The registration that forgets to count.
RegisterCollisionGeometryOnBody_NoCount ==
    \E body \in Bodies, id \in GeometryIds \ DOMAIN registered_on :
       /\ RegisterGeometry(body, id)
       /\ collision_geometries_' =
             [collision_geometries_ EXCEPT ![body] = Append(@, id)]
       /\ collision_count' = collision_count
       /\ UNCHANGED visual_geometries_

RegisterCollisionGeometryOnBody ==
    \E body \in Bodies, id \in GeometryIds \ DOMAIN registered_on :
       /\ RegisterGeometry(body, id)
       /\ collision_geometries_' =
             [collision_geometries_ EXCEPT ![body] = Append(@, id)]
       /\ collision_count' = collision_count + 1
       /\ UNCHANGED visual_geometries_

FindBodyByGeometryId ==
    \E geometry_id \in 0 .. MaxGeometries :
       /\ find_last' =
             IF geometry_id = 0
               THEN [id |-> geometry_id, ok |-> FALSE, body |-> 0]
               ELSE IF geometry_id \in DOMAIN geometry_id_to_body_index_
                      THEN [id |-> geometry_id, ok |-> TRUE,
                            body |-> geometry_id_to_body_index_[geometry_id]]
                      ELSE [id |-> geometry_id, ok |-> FALSE, body |-> 0]
       /\ UNCHANGED <<geometry_id_to_body_index_, visual_geometries_,
                      collision_geometries_, collision_count, registered_on>>

InitRegistry ==
    /\ is_discrete \in BOOLEAN
    /\ ForcesAtRest
    /\ StepAtRest
    /\ ContactAtRest
    /\ CacheAtRest
    /\ SizeAtRest
    /\ LimitAtRest
    /\ PlantAtRest
    /\ QueryAtRest
    /\ PairAtRest
    /\ SurfaceAtRest
    /\ ScalarAtRest
    /\ StribeckAtRest
    /\ ReactionAtRest
    /\ PenaltyAtRest
    /\ PlaneAtRest
    /\ GuardAtRest
    /\ DiscreteAtRest
    /\ ActuationAtRest
    /\ LifecycleAtRest
    /\ geometry_id_to_body_index_ = <<>>
    /\ visual_geometries_ = [b \in Bodies |-> <<>>]
    /\ collision_geometries_ = [b \in Bodies |-> <<>>]
    /\ collision_count = 0
    /\ registered_on = <<>>
    /\ find_last = [id |-> -1, ok |-> FALSE, body |-> 0]

NextRegistry ==
    \/ RegisterVisualGeometry /\ UNCHANGED otherThanRegistry
    \/ RegisterCollisionGeometryOnBody /\ UNCHANGED otherThanRegistry
    \/ FindBodyByGeometryId /\ UNCHANGED otherThanRegistry

SpecRegistry == InitRegistry /\ [][NextRegistry]_vars

\* How often the identifier g occurs in the lists of all bodies.
RECURSIVE Occurrences(_, _, _)
Occurrences(lists, g, b) ==
    IF b >= num_bodies THEN 0
    ELSE Cardinality({i \in DOMAIN lists[b] : lists[b][i] = g})
         + Occurrences(lists, g, b + 1)

RECURSIVE TotalLength(_, _)
TotalLength(lists, b) ==
    IF b >= num_bodies THEN 0 ELSE Len(lists[b]) + TotalLength(lists, b + 1)

\* C22: every registered identifier maps to the body it was registered on
\* and occurs exactly once, in that body's visual or collision list; no
\* other identifier is mapped or listed; the collision count is the total
\* length of the collision lists; FindBodyByGeometryId gives a registered
\* identifier's body and fails for the invalid and for an unknown identifier.
C22_GeometryMapsToItsBody ==
    /\ DOMAIN geometry_id_to_body_index_ = DOMAIN registered_on
    /\ \A g \in DOMAIN registered_on :
          LET body == registered_on[g]
          IN /\ geometry_id_to_body_index_[g] = body
             /\ Occurrences(visual_geometries_, g, 0)
                   + Occurrences(collision_geometries_, g, 0) = 1
             /\ \E i \in DOMAIN visual_geometries_[body] \cup
                          DOMAIN collision_geometries_[body] :
                   \/ i \in DOMAIN visual_geometries_[body]
                        /\ visual_geometries_[body][i] = g
                   \/ i \in DOMAIN collision_geometries_[body]
                        /\ collision_geometries_[body][i] = g
    /\ \A g \in (0 .. MaxGeometries) \ DOMAIN registered_on :
          Occurrences(visual_geometries_, g, 0)
             + Occurrences(collision_geometries_, g, 0) = 0
    /\ collision_count = TotalLength(collision_geometries_, 0)
    /\ find_last.id >= 0 =>
          IF find_last.id \in DOMAIN registered_on
            THEN find_last.ok /\ find_last.body = registered_on[find_last.id]
            ELSE ~find_last.ok

\* Two geometries registered, one of them a collision geometry, and the
\* body of a registered identifier found.
C22_Witness ==
    /\ Cardinality(DOMAIN registered_on) = 2
    /\ collision_count >= 1
    /\ find_last.ok
    /\ find_last.body = registered_on[find_last.id]

\* ------------------------------------------------------------------------
\* StribeckModel.  Reals are exact fractions <<numerator, denominator>> with
\* a positive denominator.
\* ------------------------------------------------------------------------
FracLess(a, b) == a[1] * b[2] < b[1] * a[2]

FracEq(a, b) == a[1] * b[2] = b[1] * a[2]

\* The quintic without its last term.
step5_Quartic(x) ==
    LET a == x[1]
        b == x[2]
    IN <<10 * a * a * a * b * b - 15 * a * a * a * a * b, b * b * b * b * b>>

\* step5(x) = x^3 (10 + x (6 x - 15)) = 10 x^3 - 15 x^4 + 6 x^5.
step5(x) ==
    LET a == x[1]
        b == x[2]
    IN <<10 * a * a * a * b * b - 15 * a * a * a * a * b
            + 6 * a * a * a * a * a,
         b * b * b * b * b>>

\* The three return statements of ComputeFrictionCoefficient.
StribeckBranch(branch, v, mu_s, mu_d) ==
    CASE branch = "v >= 3" -> <<mu_d, 1>>
      [] branch = "v >= 1" ->
           LET s == step5(<<v[1] - v[2], 2 * v[2]>>)
           IN <<mu_s * s[2] - (mu_s - mu_d) * s[1], s[2]>>
      [] branch = "v < 1" ->
           LET s == step5(v)
           IN <<mu_s * s[1], s[2]>>

ComputeFrictionCoefficient(v, mu_s, mu_d) ==
    IF ~FracLess(v, <<3, 1>>) THEN StribeckBranch("v >= 3", v, mu_s, mu_d)
    ELSE IF ~FracLess(v, <<1, 1>>)
           THEN StribeckBranch("v >= 1", v, mu_s, mu_d)
           ELSE StribeckBranch("v < 1", v, mu_s, mu_d)

CalcStribeck ==
    /\ ~stribeck_out.done
    /\ stribeck_out' =
          [done |-> TRUE,
           mu |-> ComputeFrictionCoefficient(<<stribeck_in.n, VScale>>,
                      stribeck_in.mu_s, stribeck_in.mu_d)]
    /\ UNCHANGED stribeck_in

InitStribeck ==
    /\ stribeck_in \in {f \in [mu_s : 0 .. MaxGain, mu_d : 0 .. MaxGain,
                              n : 0 .. 4 * VScale] : f.mu_s >= f.mu_d}
    /\ stribeck_out = [done |-> FALSE, mu |-> <<0, 1>>]
    /\ is_discrete = FALSE
    /\ ForcesAtRest
    /\ StepAtRest
    /\ ContactAtRest
    /\ CacheAtRest
    /\ SizeAtRest
    /\ LimitAtRest
    /\ PlantAtRest
    /\ QueryAtRest
    /\ PairAtRest
    /\ SurfaceAtRest
    /\ ScalarAtRest
    /\ RegistryAtRest
    /\ ReactionAtRest
    /\ PenaltyAtRest
    /\ PlaneAtRest
    /\ GuardAtRest
    /\ DiscreteAtRest
    /\ ActuationAtRest
    /\ LifecycleAtRest

NextStribeck ==
    \/ CalcStribeck /\ UNCHANGED otherThanStribeck

SpecStribeck == InitStribeck /\ [][NextStribeck]_vars

\* C23: for mu_s >= mu_d >= 0 the coefficient is 0 at v = 0, mu_d for every
\* v >= 3, and continuous where the branches meet: at v = 1 the branch for
\* v < 1 and the branch for v >= 1 both give mu_s, and at v = 3 the branch
\* for v >= 1 and the branch for v >= 3 both give mu_d.
C23_StribeckIsContinuous ==
    stribeck_out.done =>
       LET mu_s == stribeck_in.mu_s
           mu_d == stribeck_in.mu_d
           v == <<stribeck_in.n, VScale>>
           Is(f, m) == FracEq(f, <<m, 1>>)
       IN /\ FracEq(v, <<0, 1>>) => Is(stribeck_out.mu, 0)
          /\ ~FracLess(v, <<3, 1>>) => Is(stribeck_out.mu, mu_d)
          /\ FracEq(v, <<1, 1>>) =>
                /\ Is(stribeck_out.mu, mu_s)
                /\ Is(StribeckBranch("v < 1", v, mu_s, mu_d), mu_s)
                /\ Is(StribeckBranch("v >= 1", v, mu_s, mu_d), mu_s)
          /\ FracEq(v, <<3, 1>>) =>
                /\ Is(StribeckBranch("v >= 1", v, mu_s, mu_d), mu_d)
                /\ Is(StribeckBranch("v >= 3", v, mu_s, mu_d), mu_d)

\* The coefficient computed at v = 1 for a static friction above the
\* dynamic friction.
C23_Witness ==
    /\ stribeck_out.done
    /\ stribeck_in.n = VScale
    /\ stribeck_in.mu_s > stribeck_in.mu_d
    /\ stribeck_in.mu_d > 0
    /\ FracEq(stribeck_out.mu, <<stribeck_in.mu_s, 1>>)

\* ------------------------------------------------------------------------
\* CalcReactionForces: the reaction force of every joint, from the reaction
\* force of its mobilizer.
\* ------------------------------------------------------------------------
\* Frame indices: 1 and 2 are the inboard (F) and outboard (M) frames of the
\* mobilizer; 3 is a frame the mobilizer does not use.
FrameIndices == 1 .. 3

\* Re-expression of a spatial force by a rotation; in the one-dimensional
\* analogue a rotation is a sign.
Express(R, F) == [tau |-> Times(R, F.tau), f |-> Times(R, F.f)]

JointInputs ==
    [Jp_index : FrameIndices, Jc_index : FrameIndices,
     F_index : {1}, M_index : {2},
     F_BMo_W : {[tau |-> 1, f |-> 2], [tau |-> 0, f |-> -3]},
     p_JpJc_Jp : 0 .. MaxState,
     R_WJp : {-1, 1}, R_WJc : {-1, 1}]

\* The body of the loop over the joints without the negation of the
\* mobilizer force in the inverted case.
JointReaction_NoNegation(j) ==
    IF j.Jc_index = j.M_index
    THEN Express(j.R_WJc, j.F_BMo_W)
    ELSE Express(j.R_WJc, Shift(j.F_BMo_W, Times(j.R_WJp, j.p_JpJc_Jp)))

\* The body of the loop over the joints: F_CJc_W by case, then R_JcW *
\* F_CJc_W. R_JcW is the inverse of R_WJc, which for a sign is itself.
JointReaction(j) ==
    IF j.Jc_index = j.M_index
    THEN Express(j.R_WJc, j.F_BMo_W)
    ELSE Express(j.R_WJc,
                 Shift(SpatialNegate(j.F_BMo_W),
                       Times(j.R_WJp, j.p_JpJc_Jp)))

\* DRAKE_DEMAND on the frames of the joint and of its mobilizer.
FramesDemand(j) ==
    \/ (j.Jp_index = j.F_index /\ j.Jc_index = j.M_index)
    \/ (j.Jp_index = j.M_index /\ j.Jc_index = j.F_index)

Unwritten == [written |-> 0, F |-> SpatialZero]

\* The loop runs over the joints in order and stops at the first joint whose
\* frames fail the demand, which aborts the program.
RECURSIVE ReactionLoop(_, _, _)
ReactionLoop(joints, array, i) ==
    IF i > Len(joints) THEN [aborted |-> FALSE, array |-> array]
    ELSE IF ~FramesDemand(joints[i]) THEN [aborted |-> TRUE, array |-> array]
    ELSE ReactionLoop(joints,
                      [array EXCEPT ![i] =
                          [written |-> array[i].written + 1,
                           F |-> JointReaction(joints[i])]],
                      i + 1)

CalcJointReactionForces ==
    /\ ~reaction_out.done
    /\ LET r == ReactionLoop(reaction_in, reaction_out.array, 1)
       IN reaction_out' = [done |-> TRUE, aborted |-> r.aborted,
                           array |-> r.array]
    /\ UNCHANGED reaction_in

InitReaction ==
    /\ \E n \in 1 .. MaxJoints :
          /\ reaction_in \in [1 .. n -> JointInputs]
          /\ reaction_out = [done |-> FALSE, aborted |-> FALSE,
                             array |-> [i \in 1 .. n |-> Unwritten]]
    /\ is_discrete = FALSE
    /\ ForcesAtRest
    /\ StepAtRest
    /\ ContactAtRest
    /\ CacheAtRest
    /\ SizeAtRest
    /\ LimitAtRest
    /\ PlantAtRest
    /\ QueryAtRest
    /\ PairAtRest
    /\ SurfaceAtRest
    /\ ScalarAtRest
    /\ RegistryAtRest
    /\ StribeckAtRest
    /\ PenaltyAtRest
    /\ PlaneAtRest
    /\ GuardAtRest
    /\ DiscreteAtRest
    /\ ActuationAtRest
    /\ LifecycleAtRest

NextReaction ==
    \/ CalcJointReactionForces /\ UNCHANGED otherThanReaction

SpecReaction == InitReaction /\ [][NextReaction]_vars

\* C24: when the computation completes, for every joint exactly one of
\* (Jp = F and Jc = M) or (Jp = M and Jc = F) holds; its single output entry
\* is the mobilizer force unchanged when the child frame is the outboard
\* frame, and otherwise the mobilizer force negated and then shifted from the
\* origin of Jp to the origin of Jc; in both cases re-expressed in Jc.
C24_ReactionByCase ==
    (reaction_out.done /\ ~reaction_out.aborted) =>
        \A i \in 1 .. Len(reaction_in) :
            LET j == reaction_in[i]
                direct == j.Jp_index = j.F_index /\ j.Jc_index = j.M_index
                inverted == j.Jp_index = j.M_index /\ j.Jc_index = j.F_index
                F == j.F_BMo_W
                p == j.R_WJp * j.p_JpJc_Jp
                out == reaction_out.array[i]
            IN /\ direct # inverted
               /\ out.written = 1
               /\ direct =>
                     out.F = [tau |-> j.R_WJc * F.tau, f |-> j.R_WJc * F.f]
               /\ inverted =>
                     out.F = [tau |-> j.R_WJc * ((-F.tau) - p * (-F.f)),
                              f |-> j.R_WJc * (-F.f)]

\* A completed computation with a joint whose child frame is the inboard
\* frame of its mobilizer, away from the origin of its parent frame.
C24_Witness ==
    /\ reaction_out.done
    /\ ~reaction_out.aborted
    /\ \E i \in 1 .. Len(reaction_in) :
          /\ reaction_in[i].Jc_index = reaction_in[i].F_index
          /\ reaction_in[i].p_JpJc_Jp > 0
          /\ reaction_out.array[i].written = 1
          /\ reaction_out.array[i].F # reaction_in[i].F_BMo_W

\* ------------------------------------------------------------------------
\* JointLimitsPenaltyParametersEstimator: the penalty parameters of a joint
\* from the estimates for its two bodies.
\* ------------------------------------------------------------------------
\* std::numeric_limits<double>::infinity(), above every finite value of the
\* model.
Infinity == 1000

\* Multiplication of doubles that are NaN, infinite or positive and finite.
DoubleTimes(a, b) ==
    IF a = NaN \/ b = NaN THEN NaN
    ELSE IF a = Infinity \/ b = Infinity THEN Infinity
    ELSE a * b

\* operator< of doubles: false when either side is NaN.
DoubleLess(a, b) == a # NaN /\ b # NaN /\ a < b

\* stiffness = inertia * omega0^2 and damping = 2 * sqrt(inertia *
\* stiffness), which is 2 * inertia * omega0 for inertia >= 0. The frequency
\* omega0 = 2 pi / period is taken as an integer.
CalcCriticallyDampedHarmonicOscillatorParameters(omega0, inertia) ==
    [stiffness |-> DoubleTimes(inertia, omega0 * omega0),
     damping |-> DoubleTimes(2, DoubleTimes(inertia, omega0))]

\* The pair with the smaller stiffness; params2 when params1 is not less
\* stiff.
PickLessStiffPenaltyParameters(params1, params2) ==
    IF DoubleLess(params1.stiffness, params2.stiffness)
      THEN params1
      ELSE params2

\* A body of a joint: the world, or a body whose default mass is NaN
\* (unspecified) or positive.
JointBodies ==
    [world : {TRUE}, default_mass : {NaN}]
      \cup [world : {FALSE}, default_mass : {NaN} \cup (1 .. MaxGain)]

PenaltyInputs ==
    {j \in [kind : {"prismatic", "revolute"}, parent_body : JointBodies,
            child_body : JointBodies, omega0 : 1 .. MaxState] :
        ~(j.parent_body.world /\ j.child_body.world)}

\* The inertia CalcPrismaticJointPenaltyParameters takes for a body.
PrismaticInertia(body) ==
    IF body.world THEN Infinity ELSE body.default_mass

\* The inertia CalcRevoluteJointPenaltyParameters takes for a body; the
\* rotational inertia about the axis of a body of unit gyration radius is
\* its mass.
RevoluteInertia(body) ==
    IF body.world THEN Infinity
    ELSE IF body.default_mass = NaN THEN Infinity
    ELSE body.default_mass

PenaltyResult(parent_params, child_params) ==
    [done |-> TRUE, parent_params |-> parent_params,
     child_params |-> child_params,
     params |-> PickLessStiffPenaltyParameters(parent_params, child_params)]

CalcPrismaticJointPenaltyParameters ==
    /\ ~penalty_out.done
    /\ penalty_in.kind = "prismatic"
    /\ penalty_out' =
          PenaltyResult(
              CalcCriticallyDampedHarmonicOscillatorParameters(
                  penalty_in.omega0, PrismaticInertia(penalty_in.parent_body)),
              CalcCriticallyDampedHarmonicOscillatorParameters(
                  penalty_in.omega0, PrismaticInertia(penalty_in.child_body)))
    /\ UNCHANGED penalty_in

CalcRevoluteJointPenaltyParameters ==
    /\ ~penalty_out.done
    /\ penalty_in.kind = "revolute"
    /\ penalty_out' =
          PenaltyResult(
              CalcCriticallyDampedHarmonicOscillatorParameters(
                  penalty_in.omega0, RevoluteInertia(penalty_in.parent_body)),
              CalcCriticallyDampedHarmonicOscillatorParameters(
                  penalty_in.omega0, RevoluteInertia(penalty_in.child_body)))
    /\ UNCHANGED penalty_in

InitPenalty ==
    /\ penalty_in \in PenaltyInputs
    /\ penalty_out = [done |-> FALSE]
    /\ is_discrete = FALSE
    /\ ForcesAtRest
    /\ StepAtRest
    /\ ContactAtRest
    /\ CacheAtRest
    /\ SizeAtRest
    /\ LimitAtRest
    /\ PlantAtRest
    /\ QueryAtRest
    /\ PairAtRest
    /\ SurfaceAtRest
    /\ ScalarAtRest
    /\ RegistryAtRest
    /\ StribeckAtRest
    /\ ReactionAtRest
    /\ PlaneAtRest
    /\ GuardAtRest
    /\ DiscreteAtRest
    /\ ActuationAtRest
    /\ LifecycleAtRest

NextPenalty ==
    \/ CalcPrismaticJointPenaltyParameters /\ UNCHANGED otherThanPenalty
    \/ CalcRevoluteJointPenaltyParameters /\ UNCHANGED otherThanPenalty

SpecPenalty == InitPenalty /\ [][NextPenalty]_vars

\* A body side has finite inertia when it is not the world and its mass is
\* specified.
FiniteSide(body) == ~body.world /\ body.default_mass # NaN

\* C25: the pair returned for a joint is one of the two body-side pairs
\* unchanged (so its damping is the one paired with its stiffness), its
\* stiffness is finite whenever one of the sides has finite inertia (the
\* world or a body of unspecified mass never wins against a finite side),
\* and no side is less stiff than it.
C25_LessStiffPairWins ==
    penalty_out.done =>
        /\ penalty_out.params \in
              {penalty_out.parent_params, penalty_out.child_params}
        /\ (FiniteSide(penalty_in.parent_body)
              \/ FiniteSide(penalty_in.child_body)) =>
              /\ penalty_out.params.stiffness # NaN
              /\ penalty_out.params.stiffness # Infinity
              /\ \A m \in {b.default_mass :
                            b \in {c \in {penalty_in.parent_body,
                                          penalty_in.child_body} :
                                      FiniteSide(c)}} :
                    penalty_out.params.stiffness
                        <= m * penalty_in.omega0 * penalty_in.omega0

\* ------------------------------------------------------------------------
\* CollisionGeometry::OnPlaneSide and the two tests that call it.
\* ------------------------------------------------------------------------
\* The number of vertices of a box.
kBoxVertices == 8

\* The geometries of the tests: the box of body 0 and a convex polytope.
CollisionGeometries ==
    {[shape |-> "box", vertices |-> kBoxVertices]}
      \cup [shape : {"convex"}, vertices : 4 .. (3 + MaxGeometries)]

PlaneSides == {"kPositive", "kNegative"}

nullopt == "nullopt"

\* The rational of vertex i: a.dot(p_AV) + b - offset on the positive side
\* and -offset - a.dot(p_AV) - b on the negative side, where offset is 1
\* without a separating margin and the margin otherwise.
VertexRational(i, plane_side, separating_margin) ==
    [vertex |-> i, plane_side |-> plane_side,
     offset |-> IF separating_margin = nullopt THEN "1" ELSE separating_margin]

\* The rationals of one call, in the order of the vertices.
VertexRationals(plane_side, separating_margin) ==
    [i \in 1 .. collision_geometry.vertices |->
        VertexRational(i, plane_side, separating_margin)]

\* The list after a call that replaces the contents of the list.
OnPlaneSideRationals_Overwrite(list, plane_side, separating_margin) ==
    VertexRationals(plane_side, separating_margin)

\* The list after a call: one rational per vertex at the end of the list.
OnPlaneSideRationals(list, plane_side, separating_margin) ==
    list \o VertexRationals(plane_side, separating_margin)

OnPlaneSide ==
    /\ plane_last.calls < MaxEvals
    /\ \E plane_side \in PlaneSides, separating_margin \in {nullopt, "delta"} :
          /\ rationals' = OnPlaneSideRationals(rationals, plane_side,
                                               separating_margin)
          /\ unit_length_vector' = (separating_margin # nullopt)
          /\ plane_last' = [op |-> "OnPlaneSide", before |-> rationals,
                            calls |-> plane_last.calls + 1]
    /\ UNCHANGED collision_geometry

\* rationals.clear() between the two calls of the test of the box.
ClearRationals ==
    /\ rationals # <<>>
    /\ rationals' = <<>>
    /\ plane_last' = [op |-> "clear", before |-> rationals, calls |-> 0]
    /\ UNCHANGED <<collision_geometry, unit_length_vector>>

InitPlane ==
    /\ collision_geometry \in CollisionGeometries
    /\ rationals = <<>>
    /\ unit_length_vector = FALSE
    /\ plane_last = [op |-> "none", before |-> <<>>, calls |-> 0]
    /\ is_discrete = FALSE
    /\ ForcesAtRest
    /\ StepAtRest
    /\ ContactAtRest
    /\ CacheAtRest
    /\ SizeAtRest
    /\ LimitAtRest
    /\ PlantAtRest
    /\ QueryAtRest
    /\ PairAtRest
    /\ SurfaceAtRest
    /\ ScalarAtRest
    /\ RegistryAtRest
    /\ StribeckAtRest
    /\ ReactionAtRest
    /\ PenaltyAtRest
    /\ GuardAtRest
    /\ DiscreteAtRest
    /\ ActuationAtRest
    /\ LifecycleAtRest

NextPlane ==
    \/ OnPlaneSide /\ UNCHANGED otherThanPlane
    \/ ClearRationals /\ UNCHANGED otherThanPlane

SpecPlane == InitPlane /\ [][NextPlane]_vars

\* C26: after a call of OnPlaneSide the list is the list before the call,
\* unchanged and in place, followed by exactly one rational per vertex (8 for
\* a box) in the order of the vertices; after two calls on a list that was
\* empty the list has twice the vertex count and the rationals of the second
\* call start right after the vertex count.
C26_OneRationalPerVertexAppended ==
    plane_last.op = "OnPlaneSide" =>
        LET n == collision_geometry.vertices
            before == plane_last.before
        IN /\ collision_geometry.shape = "box" => n = 8
           /\ Len(rationals) = Len(before) + n
           /\ \A i \in 1 .. Len(before) : rationals[i] = before[i]
           /\ \A i \in 1 .. n : rationals[Len(before) + i].vertex = i
           /\ Len(rationals) = plane_last.calls * n
           /\ plane_last.calls = 2 =>
                 /\ Len(rationals) = 2 * n
                 /\ \A i \in 1 .. n : rationals[i] = before[i]
                 /\ \A i \in 1 .. n : rationals[n + i].vertex = i

\* The second call of the test of the convex geometry: the negative side
\* without a margin, then the positive side with a margin, not cleared in
\* between.
C26_Witness ==
    /\ plane_last.op = "OnPlaneSide"
    /\ plane_last.calls = 2
    /\ collision_geometry.shape = "convex"
    /\ Len(rationals) = 2 * collision_geometry.vertices
    /\ rationals[1].plane_side = "kNegative"
    /\ rationals[1].offset = "1"
    /\ rationals[collision_geometry.vertices + 1].plane_side = "kPositive"
    /\ rationals[collision_geometry.vertices + 1].offset = "delta"
    /\ unit_length_vector

\* ------------------------------------------------------------------------
\* The in-progress marker on the two paths to AddInForcesFromInputPorts.
\* ------------------------------------------------------------------------
\* The input ports in the order AddInForcesFromInputPorts reads them, and
\* what follows them.
InputPorts == {"generalized", "spatial", "actuation"}

AfterPort(pc) ==
    CASE pc = "generalized" -> "spatial"
      [] pc = "spatial" -> "actuation"
      [] pc = "actuation" -> "rest"

ReadingPorts ==
    /\ guard_stack # <<>>
    /\ guard_stack[Len(guard_stack)].pc \in InputPorts

\* An exception leaves every active evaluation; the scoped guards of the
\* evaluations that set the marker reset it.
GuardThrow ==
    /\ guard_error' = "algebraic_loop"
    /\ guard_stack' = <<>>
    /\ evaluation_in_progress' =
          IF \E i \in 1 .. Len(guard_stack) :
                guard_stack[i].fn = "CalcNonContactForces"
            THEN FALSE
            ELSE evaluation_in_progress
    /\ UNCHANGED port_reads

\* The entry of CalcNonContactForces: ThrowIfNonContactForceInProgress.
GuardedEntry ==
    IF evaluation_in_progress
      THEN GuardThrow
      ELSE /\ evaluation_in_progress' = TRUE
           /\ guard_stack' = Append(guard_stack,
                 [fn |-> "CalcNonContactForces", pc |-> "generalized"])
           /\ guard_error' = "none"
           /\ UNCHANGED port_reads

\* The entry of AddInForcesContinuous: the marker is neither tested nor set.
UnguardedEntry ==
    /\ guard_stack' = Append(guard_stack,
          [fn |-> "AddInForcesContinuous", pc |-> "generalized"])
    /\ guard_error' = "none"
    /\ UNCHANGED <<evaluation_in_progress, port_reads>>

\* CalcReactionForces evaluates the non-contact forces.
EvalReactionForces ==
    /\ guard_stack = <<>>
    /\ GuardedEntry

\* The forward dynamics of a continuous plant adds in the forces.
EvalTimeDerivatives ==
    /\ guard_stack = <<>>
    /\ ~is_discrete
    /\ UnguardedEntry

\* The port being read is fed back from the reaction forces of the plant.
FeedbackThroughReactionForces ==
    /\ ReadingPorts
    /\ Len(guard_stack) < MaxDepth
    /\ GuardedEntry

\* The port being read is fed back from the accelerations of a continuous
\* plant.
FeedbackThroughAccelerations ==
    /\ ReadingPorts
    /\ Len(guard_stack) < MaxDepth
    /\ ~is_discrete
    /\ UnguardedEntry

\* One of the three reads of AddInForcesFromInputPorts.
ReadInputPort ==
    /\ ReadingPorts
    /\ LET n == Len(guard_stack)
           top == guard_stack[n]
       IN /\ port_reads' = port_reads \cup
                {[fn |-> top.fn, port |-> top.pc,
                  marked |-> evaluation_in_progress]}
          /\ guard_stack' = [guard_stack EXCEPT ![n].pc = AfterPort(top.pc)]
    /\ UNCHANGED <<evaluation_in_progress, guard_error>>

\* The evaluation returns; the scoped guard of CalcNonContactForces resets
\* the marker.
ReturnFromEvaluation ==
    /\ guard_stack # <<>>
    /\ LET n == Len(guard_stack)
       IN /\ guard_stack[n].pc = "rest"
          /\ guard_stack' = SubSeq(guard_stack, 1, n - 1)
          /\ evaluation_in_progress' =
                IF guard_stack[n].fn = "CalcNonContactForces"
                  THEN FALSE
                  ELSE evaluation_in_progress
    /\ UNCHANGED <<port_reads, guard_error>>

InitGuard ==
    /\ guard_stack = <<>>
    /\ evaluation_in_progress = FALSE
    /\ port_reads = {}
    /\ guard_error = "none"
    /\ is_discrete \in BOOLEAN
    /\ ForcesAtRest
    /\ StepAtRest
    /\ ContactAtRest
    /\ CacheAtRest
    /\ SizeAtRest
    /\ LimitAtRest
    /\ PlantAtRest
    /\ QueryAtRest
    /\ PairAtRest
    /\ SurfaceAtRest
    /\ ScalarAtRest
    /\ RegistryAtRest
    /\ StribeckAtRest
    /\ ReactionAtRest
    /\ PenaltyAtRest
    /\ PlaneAtRest
    /\ DiscreteAtRest
    /\ ActuationAtRest
    /\ LifecycleAtRest

NextGuard ==
    \/ EvalReactionForces /\ UNCHANGED otherThanGuard
    \/ EvalTimeDerivatives /\ UNCHANGED otherThanGuard
    \/ FeedbackThroughReactionForces /\ UNCHANGED otherThanGuard
    \/ FeedbackThroughAccelerations /\ UNCHANGED otherThanGuard
    \/ ReadInputPort /\ UNCHANGED otherThanGuard
    \/ ReturnFromEvaluation /\ UNCHANGED otherThanGuard

SpecGuard == InitGuard /\ [][NextGuard]_vars

\* C27: every read of an input port by AddInForcesFromInputPorts, from
\* CalcNonContactForces or from AddInForcesContinuous, happens with the
\* in-progress marker set, and a feedback re-entry never becomes a second
\* active evaluation: it ends in the algebraic-loop error.
C27_PortsReadUnderMarker ==
    /\ \A r \in port_reads : r.marked
    /\ Len(guard_stack) <= 1

\* ------------------------------------------------------------------------
\* The contact results of a discrete plant: what they are declared to depend
\* on and what they are computed from.
\* ------------------------------------------------------------------------
\* The input ports AddInForcesFromInputPorts reads.
ForceInputPorts ==
    {"actuation", "applied_generalized_force", "applied_spatial_force"}

\* What the discrete contact computation is a function of: state,
\* parameters and input.
DiscreteSources == {"xd", "all_parameters"} \cup ForceInputPorts

\* The cached values of a discrete plant: the contact results and the
\* output port of the generalized contact forces of a model instance.
DiscreteEntries == {"contact_results", "generalized_contact_forces"}

\* The tickets an entry is declared with.
DeclaredPrerequisites(entry) ==
    IF entry = "contact_results"
      THEN Prerequisites("contact_results")
      ELSE {"xd", "all_parameters"}

\* The versions stored with an entry when it is computed.
StoredVersions(entry) ==
    [t \in DeclaredPrerequisites(entry) |-> source_version[t]]

\* The value the calculator computes from the present state, parameters and
\* inputs.
DiscreteValue(entry) ==
    [t \in DiscreteSources |-> source_version[t]]

TotalChanges ==
    source_version["xd"] + source_version["all_parameters"]
        + source_version["actuation"]
        + source_version["applied_generalized_force"]
        + source_version["applied_spatial_force"]

\* The discrete state, a parameter or the value on an input port changes.
ChangeSource ==
    /\ TotalChanges < MaxState
    /\ \E t \in DiscreteSources :
          source_version' = [source_version EXCEPT ![t] = @ + 1]
    /\ UNCHANGED <<results_cache, returned>>

\* Eval of an entry: recomputed when the versions stored with it are not
\* the current ones, returned from the cache otherwise.
EvalDiscreteEntry ==
    \E entry \in DiscreteEntries :
       LET fresh == results_cache[entry].stored = StoredVersions(entry)
           after == IF fresh THEN results_cache[entry]
                    ELSE [stored |-> StoredVersions(entry),
                          value |-> DiscreteValue(entry)]
       IN /\ results_cache' = [results_cache EXCEPT ![entry] = after]
          /\ returned' = [entry |-> entry, value |-> after.value,
                          from_cache |-> fresh,
                          now |-> DiscreteValue(entry)]
          /\ UNCHANGED source_version

InitDiscrete ==
    /\ is_discrete = TRUE
    /\ source_version = [t \in DiscreteSources |-> 0]
    /\ results_cache = [entry \in DiscreteEntries |->
                           [stored |-> <<>>, value |-> <<>>]]
    /\ returned = [entry |-> "none"]
    /\ ForcesAtRest
    /\ StepAtRest
    /\ ContactAtRest
    /\ CacheAtRest
    /\ SizeAtRest
    /\ LimitAtRest
    /\ PlantAtRest
    /\ QueryAtRest
    /\ PairAtRest
    /\ SurfaceAtRest
    /\ ScalarAtRest
    /\ RegistryAtRest
    /\ StribeckAtRest
    /\ ReactionAtRest
    /\ PenaltyAtRest
    /\ PlaneAtRest
    /\ GuardAtRest
    /\ ActuationAtRest
    /\ LifecycleAtRest

NextDiscrete ==
    \/ ChangeSource /\ UNCHANGED otherThanDiscrete
    \/ EvalDiscreteEntry /\ UNCHANGED otherThanDiscrete

SpecDiscrete == InitDiscrete /\ [][NextDiscrete]_vars

\* C28: in discrete mode the value an evaluation of the contact results or
\* of the generalized contact forces returns is the value for the present
\* discrete state, parameters and input port values (actuation, applied
\* generalized force, applied spatial force): a cached value is never
\* returned after one of them changed.
C28_NoStaleContactResults ==
    returned.entry # "none" => returned.value = returned.now

\* ------------------------------------------------------------------------
\* The value each actuator is given when the actuation comes in through the
\* ports of the model instances.
\* ------------------------------------------------------------------------
\* The position of actuator k among the actuators of its model instance, in
\* the order of the actuator indices.
RankInInstance(k) ==
    Cardinality({j \in 1 .. k : actuators[j] = actuators[k]})

\* The value the port of model instance i gives for its j-th actuator.
InstanceValue(scale, i, j) == scale * (10 * i + j)

\* What the actuation ports can hold: the port of every instance connected
\* or not, the port for all instances connected or not.
InstanceActuationReads ==
    {[all |-> [has |-> all_has,
               val |-> IF all_has
                         THEN [k \in 1 .. num_actuators |-> 90 + k]
                         ELSE <<>>],
      inst |-> [i \in ModelInstances |->
                  [has |-> i \in connected,
                   val |-> IF i \in connected
                             THEN [j \in 1 .. num_actuated_dofs(i) |->
                                      InstanceValue(scale, i, j)]
                             ELSE <<>>]]] :
        all_has \in BOOLEAN, connected \in SUBSET ModelInstances,
        scale \in 1 .. MaxGain}

\* The value AddJointActuationForces passes to AddInOneForce for each
\* actuator: u[actuator_index].
ActuatorInputs(u) == [k \in 1 .. num_actuators |-> u[k]]

ApplyActuation ==
    /\ ~actuation_out.done
    /\ LET a == AssembleActuationInput(actuation_read)
       IN actuation_out' =
             [done |-> TRUE, err |-> a.err, u |-> a.u,
              applied |-> IF a.err # NoError THEN <<>>
                          ELSE ActuatorInputs(a.u)]
    /\ UNCHANGED actuation_read

InitActuation ==
    /\ is_discrete = FALSE
    /\ actuators \in
          UNION {[1 .. n -> ModelInstances] : n \in 1 .. (MaxActuators + 1)}
    /\ stack = [c \in {1} |-> <<>>]
    /\ in_progress = [c \in {1} |-> FALSE]
    /\ exc = [c \in {1} |-> NoError]
    /\ pending_warning = FALSE
    /\ prior_loop = [c \in {1} |-> FALSE]
    /\ actuation_read \in InstanceActuationReads
    /\ actuation_out = [done |-> FALSE]
    /\ StepAtRest
    /\ ContactAtRest
    /\ CacheAtRest
    /\ SizeAtRest
    /\ LimitAtRest
    /\ PlantAtRest
    /\ QueryAtRest
    /\ PairAtRest
    /\ SurfaceAtRest
    /\ ScalarAtRest
    /\ RegistryAtRest
    /\ StribeckAtRest
    /\ ReactionAtRest
    /\ PenaltyAtRest
    /\ PlaneAtRest
    /\ GuardAtRest
    /\ DiscreteAtRest
    /\ LifecycleAtRest

NextActuation ==
    \/ ApplyActuation /\ UNCHANGED otherThanActuation

SpecActuation == InitActuation /\ [][NextActuation]_vars

\* C29: when the actuation comes in through the per-instance ports, the
\* assembled vector has one entry per actuated degree of freedom and the
\* value applied to every actuator is the value its own model instance's
\* port gives for it, whatever the order in which the actuators were added
\* across the model instances.
C29_EachActuatorGetsItsOwnValue ==
    (actuation_out.done /\ actuation_out.err = NoError
        /\ ~actuation_read.all.has) =>
        /\ Len(actuation_out.u) = num_actuators
        /\ \A k \in 1 .. num_actuators :
              actuation_out.applied[k] =
                 actuation_read.inst[actuators[k]].val[RankInInstance(k)]

\* ------------------------------------------------------------------------
\* The finalize lifecycle: operations that must come before Finalize and
\* operations that must come after it.
\* ------------------------------------------------------------------------
\* The operations that start with DRAKE_MBP_THROW_IF_FINALIZED.
ConfigurationOperations ==
    {"set_contact_model", "set_discrete_contact_solver",
     "set_sap_near_rigid_threshold", "AddPhysicalModel",
     "AddCouplerConstraint", "AddDistanceConstraint", "AddBallConstraint",
     "RegisterVisualGeometry", "RegisterCollisionGeometry"}

\* The port accessors that start with DRAKE_MBP_THROW_IF_NOT_FINALIZED.
GuardedPortAccessors ==
    {"get_applied_generalized_force_input_port", "get_actuation_input_port",
     "get_applied_spatial_force_input_port", "get_state_output_port",
     "get_generalized_acceleration_output_port",
     "get_generalized_contact_forces_output_port",
     "get_contact_results_output_port", "get_reaction_forces_output_port",
     "get_body_poses_output_port", "get_body_spatial_velocities_output_port",
     "get_body_spatial_accelerations_output_port"}

\* The accessors of the two ports the constructor declares
\* (DeclareSceneGraphPorts): they return the port at any time.
SceneGraphPortAccessors ==
    {"get_geometry_poses_output_port", "get_geometry_query_input_port"}

PortAccessors == GuardedPortAccessors \cup SceneGraphPortAccessors

NameQueries ==
    {"GetPositionNames", "GetVelocityNames", "GetStateNames",
     "GetActuatorNames"}

DiscreteContactSolvers == {"kTamsi", "kSap"}

\* The guard that never throws.
ThrowIfFinalized_Never(source_method) == FALSE

\* Whether ThrowIfFinalized throws.
ThrowIfFinalized(source_method) == is_finalized

\* Whether ThrowIfNotFinalized throws.
ThrowIfNotFinalized(source_method) == ~is_finalized

\* The arguments an operation is called with; for a constraint, whether its
\* specification is valid.
OperationArguments(op) ==
    CASE op = "set_contact_model" -> ContactModels
      [] op = "set_discrete_contact_solver" -> DiscreteContactSolvers
      [] op = "set_sap_near_rigid_threshold" -> {-1, 0, 1}
      [] op \in {"AddCouplerConstraint", "AddDistanceConstraint",
                 "AddBallConstraint"} -> BOOLEAN
      [] OTHER -> {0}

\* What the configuration operations have added so far.
NumAdded ==
    configuration.physical_models_ + configuration.coupler_constraints_specs_
        + configuration.distance_constraints_specs_
        + configuration.ball_constraints_specs_
        + configuration.num_visual_geometries_
        + configuration.num_collision_geometries_

Outcome(outcome, c) == [outcome |-> outcome, configuration |-> c]

\* A constraint is added to a discrete plant whose solver is not TAMSI, if
\* its specification is valid.
AddConstraint(specs, valid) ==
    IF ~is_discrete \/ configuration.contact_solver_enum_ = "kTamsi" \/ ~valid
      THEN Outcome("error", configuration)
      ELSE Outcome("ok", [configuration EXCEPT ![specs] = @ + 1])

\* A geometry is registered if the plant is registered as a geometry source.
AddGeometry(count) ==
    IF ~configuration.geometry_source_is_registered
      THEN Outcome("error", configuration)
      ELSE Outcome("ok", [configuration EXCEPT ![count] = @ + 1])

\* A configuration operation: its outcome and the configuration it leaves.
Configure(op, arg) ==
    IF ThrowIfFinalized(op) THEN Outcome("post_finalize", configuration)
    ELSE CASE op = "set_contact_model" ->
                Outcome("ok", [configuration EXCEPT !.contact_model_ = arg])
           [] op = "set_discrete_contact_solver" ->
                Outcome("ok",
                        [configuration EXCEPT !.contact_solver_enum_ = arg])
           [] op = "set_sap_near_rigid_threshold" ->
                IF arg >= 0
                  THEN Outcome("ok", [configuration EXCEPT
                                         !.sap_near_rigid_threshold_ = arg])
                  ELSE Outcome("error", configuration)
           [] op = "AddPhysicalModel" ->
                Outcome("ok", [configuration EXCEPT !.physical_models_ = @ + 1])
           [] op = "AddCouplerConstraint" ->
                AddConstraint("coupler_constraints_specs_", arg)
           [] op = "AddDistanceConstraint" ->
                AddConstraint("distance_constraints_specs_", arg)
           [] op = "AddBallConstraint" ->
                AddConstraint("ball_constraints_specs_", arg)
           [] op = "RegisterVisualGeometry" ->
                AddGeometry("num_visual_geometries_")
           [] op = "RegisterCollisionGeometry" ->
                AddGeometry("num_collision_geometries_")

ConfigurationCall ==
    /\ is_finalized \/ NumAdded < MaxState
    /\ \E op \in ConfigurationOperations :
          \E arg \in OperationArguments(op) :
             LET r == Configure(op, arg)
             IN /\ configuration' = r.configuration
                /\ lifecycle_last' = [op |-> op, outcome |-> r.outcome]
    /\ UNCHANGED is_finalized

PortAccessorCall ==
    /\ \E accessor \in PortAccessors :
          lifecycle_last' =
             [op |-> accessor,
              outcome |-> IF accessor \in GuardedPortAccessors
                               /\ ThrowIfNotFinalized(accessor)
                            THEN "pre_finalize" ELSE "ok"]
    /\ UNCHANGED <<is_finalized, configuration>>

NameQueryCall ==
    /\ \E query \in NameQueries :
          lifecycle_last' =
             [op |-> query,
              outcome |-> IF ThrowIfNotFinalized(query)
                            THEN "pre_finalize" ELSE "ok"]
    /\ UNCHANGED <<is_finalized, configuration>>

\* SetDiscreteUpdateManager with a manager, on a plant that is discrete
\* whenever it is finalized (the method demands is_discrete()).
InstallDiscreteUpdateManager ==
    /\ is_finalized => is_discrete
    /\ IF ThrowIfNotFinalized("SetDiscreteUpdateManager")
         THEN /\ lifecycle_last' = [op |-> "SetDiscreteUpdateManager",
                                    outcome |-> "pre_finalize"]
              /\ UNCHANGED configuration
         ELSE /\ lifecycle_last' = [op |-> "SetDiscreteUpdateManager",
                                    outcome |-> "ok"]
              /\ configuration' =
                    [configuration EXCEPT !.discrete_update_manager_ = TRUE]
    /\ UNCHANGED is_finalized

\* SetDefaultPositions with q of the right size or not.
SetDefaultPositionsCall ==
    /\ \E right_size \in BOOLEAN :
          IF ThrowIfNotFinalized("SetDefaultPositions")
            THEN /\ lifecycle_last' = [op |-> "SetDefaultPositions",
                                       outcome |-> "pre_finalize"]
                 /\ UNCHANGED configuration
            ELSE IF ~right_size
              THEN /\ lifecycle_last' = [op |-> "SetDefaultPositions",
                                         outcome |-> "error"]
                   /\ UNCHANGED configuration
              ELSE /\ lifecycle_last' = [op |-> "SetDefaultPositions",
                                         outcome |-> "ok"]
                   /\ configuration' =
                         [configuration EXCEPT !.default_positions = 1]
    /\ UNCHANGED is_finalized

\* Finalize of a plant not yet finalized; a discrete plant gets its manager.
FinalizeCall ==
    /\ ~is_finalized
    /\ is_finalized' = TRUE
    /\ configuration' =
          [configuration EXCEPT !.discrete_update_manager_ = is_discrete]
    /\ lifecycle_last' = [op |-> "Finalize", outcome |-> "ok"]

InitLifecycle ==
    /\ is_discrete \in BOOLEAN
    /\ is_finalized = FALSE
    /\ \E registered \in BOOLEAN :
          configuration =
             [contact_model_ |-> "kHydroelasticWithFallback",
              contact_solver_enum_ |-> "kTamsi",
              sap_near_rigid_threshold_ |-> 1,
              physical_models_ |-> 0,
              coupler_constraints_specs_ |-> 0,
              distance_constraints_specs_ |-> 0,
              ball_constraints_specs_ |-> 0,
              num_visual_geometries_ |-> 0,
              num_collision_geometries_ |-> 0,
              geometry_source_is_registered |-> registered,
              discrete_update_manager_ |-> FALSE,
              default_positions |-> 0]
    /\ lifecycle_last = [op |-> "none", outcome |-> "none"]
    /\ ForcesAtRest
    /\ StepAtRest
    /\ ContactAtRest
    /\ CacheAtRest
    /\ SizeAtRest
    /\ LimitAtRest
    /\ PlantAtRest
    /\ QueryAtRest
    /\ PairAtRest
    /\ SurfaceAtRest
    /\ ScalarAtRest
    /\ RegistryAtRest
    /\ StribeckAtRest
    /\ ReactionAtRest
    /\ PenaltyAtRest
    /\ PlaneAtRest
    /\ GuardAtRest
    /\ DiscreteAtRest
    /\ ActuationAtRest

NextLifecycle ==
    \/ ConfigurationCall /\ UNCHANGED otherThanLifecycle
    \/ PortAccessorCall /\ UNCHANGED otherThanLifecycle
    \/ NameQueryCall /\ UNCHANGED otherThanLifecycle
    \/ InstallDiscreteUpdateManager /\ UNCHANGED otherThanLifecycle
    \/ SetDefaultPositionsCall /\ UNCHANGED otherThanLifecycle
    \/ FinalizeCall /\ UNCHANGED otherThanLifecycle

SpecLifecycle == InitLifecycle /\ [][NextLifecycle]_vars

NeedFinalize ==
    PortAccessors \cup NameQueries
        \cup {"SetDiscreteUpdateManager", "SetDefaultPositions"}

\* C30 as stated: after Finalize every configuration operation fails and
\* leaves the configuration unchanged; before Finalize every port accessor,
\* SetDiscreteUpdateManager, SetDefaultPositions and every name query
\* fails; a call that fails never changes whether the plant is finalized.
C30_EveryPortAccessorGated ==
    [][LET op == lifecycle_last'.op
           outcome == lifecycle_last'.outcome
       IN /\ (is_finalized /\ op \in ConfigurationOperations) =>
                 (outcome = "post_finalize" /\ configuration' = configuration)
          /\ (~is_finalized /\ op \in NeedFinalize) =>
                 outcome = "pre_finalize"
          /\ outcome \notin {"ok", "none"} =>
                 is_finalized' = is_finalized]_vars

\* C30: after Finalize every configuration operation fails and leaves the
\* configuration unchanged; before Finalize SetDiscreteUpdateManager,
\* SetDefaultPositions, every name query and every port accessor other
\* than those of the geometry query input port and the geometry pose output
\* port fail, while these two return their port; a call that fails changes
\* neither the configuration nor whether the plant is finalized.
C30_LifecycleGates ==
    [][LET op == lifecycle_last'.op
           outcome == lifecycle_last'.outcome
       IN /\ (is_finalized /\ op \in ConfigurationOperations) =>
                 (outcome = "post_finalize" /\ configuration' = configuration)
          /\ (~is_finalized /\ op \in NeedFinalize \ SceneGraphPortAccessors)
                 => outcome = "pre_finalize"
          /\ (~is_finalized /\ op \in SceneGraphPortAccessors) =>
                 outcome = "ok"
          /\ outcome \notin {"ok", "none"} =>
                 /\ is_finalized' = is_finalized
                 /\ configuration' = configuration]_vars

\* A configuration operation rejected after Finalize on a plant that was
\* configured before it.
C30_Witness ==
    /\ is_finalized
    /\ lifecycle_last.op \in ConfigurationOperations
    /\ lifecycle_last.outcome = "post_finalize"
    /\ NumAdded > 0
    /\ configuration.contact_model_ = "kPoint"

====
